---- MODULE Spec2Model ----
(***************************************************************************)
(* Word placement engine of the crossword generator                        *)
(* (WordPlacementService.generateLayout and the CrosswordGrid it drives).  *)
(*                                                                         *)
(* Representation.                                                         *)
(*  - A string is a sequence of characters; a character is a one-token     *)
(*    TLA+ string.  The non-ASCII letters are written as tokens:           *)
(*    "uml_a" "uml_o" "uml_u" (lower case umlauts), "UML_A" "UML_O"        *)
(*    "UML_U" (upper case umlauts), "eszett" (sharp s), "long_s" (the long *)
(*    s, whose upper case is S), "e_acute" "E_ACUTE" (e with acute).       *)
(*  - A grid is a record [width, height, cells, placedWords]; cells is the *)
(*    string[][] of the class, kept as a function from the coordinates     *)
(*    <<row, col>> of the non-blank cells to their letter (every other     *)
(*    in-bounds cell holds " ").  Rows and columns are 0-based as in the   *)
(*    code; sequences are 1-based, so index i of the code is i + 1 here.   *)
(*  - Scores are the code's scores multiplied by 20, which makes them      *)
(*    integers (the code subtracts 0.1 * distance and the distance is a    *)
(*    multiple of 0.5) and keeps their order.                              *)
(***************************************************************************)
EXTENDS Integers, Sequences, FiniteSets, TLC

(***************************************************************************)
(* Bounds of the model and constants of the program                        *)
(***************************************************************************)
MaxEntries == 3

MaxRestarts == 1

MaxRawLen == 3

MAX_GRID_SIZE == 50

MinPlaced == 3

GreedyTries == 20

DfsTries == 8

BeamWidth == 200

BeamTopK == 3

HORIZONTAL == "HORIZONTAL"

VERTICAL == "VERTICAL"

Directions == <<HORIZONTAL, VERTICAL>>

(***************************************************************************)
(* Generic helpers                                                         *)
(***************************************************************************)
Min(a, b) == IF a < b THEN a ELSE b

Max(a, b) == IF a > b THEN a ELSE b

Abs(a) == IF a < 0 THEN -a ELSE a

Range(s) == {s[i] : i \in DOMAIN s}

\* Sums, maxima and concatenations of sequences.  The recursions split the
\* sequence in two halves, which keeps them shallow on long answers.
RECURSIVE SumRange(_, _, _)
SumRange(s, lo, hi) ==
  IF lo > hi THEN 0
  ELSE IF lo = hi THEN s[lo]
  ELSE SumRange(s, lo, (lo + hi) \div 2) + SumRange(s, (lo + hi) \div 2 + 1, hi)

SumSeq(s) == SumRange(s, 1, Len(s))

MaxSeq(s) == CHOOSE x \in Range(s) : \A y \in Range(s) : x >= y

MinSeq(s) == CHOOSE x \in Range(s) : \A y \in Range(s) : x <= y

RECURSIVE ConcatRange(_, _, _)
ConcatRange(ss, lo, hi) ==
  IF lo > hi THEN <<>>
  ELSE IF lo = hi THEN ss[lo]
  ELSE ConcatRange(ss, lo, (lo + hi) \div 2) \o ConcatRange(ss, (lo + hi) \div 2 + 1, hi)

Concat(ss) == ConcatRange(ss, 1, Len(ss))

\* A sequence given as a function on 1..n, as the tuple of its elements.
AsSeq(f) == f \o <<>>

\* A cell array given as a function on coordinates, as the explicit table of
\* its cells.
AsCells(f) == f @@ <<>>

\* Array.prototype.filter
Filter(s, Keep(_)) == SelectSeq(s, Keep)

\* s.slice(0, n)
Take(s, n) == SubSeq(s, 1, Min(n, Len(s)))

\* Array.prototype.sort(cmp), which is stable: Before(a, b) is cmp(a, b) < 0.
\* An element comes after the elements that sort before it and after the
\* earlier elements that it does not sort before.
Sort(s, Before(_, _)) ==
  LET n == Len(s)
      rank == AsSeq([k \in 1..n |->
                 1 + Cardinality({j \in 1..n :
                       \/ Before(s[j], s[k])
                       \/ (j < k /\ ~Before(s[k], s[j]))})])
  IN AsSeq([pos \in 1..n |-> s[CHOOSE k \in 1..n : rank[k] = pos]])

\* Array.prototype.sort((a, b) => Key(b) - Key(a)): descending by Key, stable.
\* The elements are grouped by key, the groups taken from the greatest key
\* down, and each group keeps the order its elements had in s.
SortDescBy(s, Key(_)) ==
  LET keyed == AsSeq([k \in DOMAIN s |-> [key |-> Key(s[k]), val |-> s[k]]])
      keys == {keyed[k].key : k \in DOMAIN keyed}
      desc == AsSeq([pos \in 1..Cardinality(keys) |->
                CHOOSE v \in keys : Cardinality({w \in keys : w > v}) = pos - 1])
      groups == AsSeq([pos \in DOMAIN desc |->
                  SelectSeq(keyed, LAMBDA e : e.key = desc[pos])])
      all == Concat(groups)
  IN AsSeq([k \in DOMAIN all |-> all[k].val])

\* Math.ceil(Math.sqrt(n)) for n >= 0
CeilSqrt(n) == CHOOSE k \in 0..(n + 1) : k * k >= n /\ (k = 0 \/ (k - 1) * (k - 1) < n)

Perms(n) == {p \in [1..n -> 1..n] : \A i, j \in 1..n : p[i] = p[j] => i = j}

(***************************************************************************)
(* models/WordEntry.ts: normalizeWordEntry                                 *)
(***************************************************************************)
LowerAZ ==
  <<"a","b","c","d","e","f","g","h","i","j","k","l","m",
    "n","o","p","q","r","s","t","u","v","w","x","y","z">>

UpperAZ ==
  <<"A","B","C","D","E","F","G","H","I","J","K","L","M",
    "N","O","P","Q","R","S","T","U","V","W","X","Y","Z">>

\* String.prototype.toUpperCase on one character: a string, since the upper
\* case of the sharp s is the two letters SS.
UpperChar(c) ==
  IF c \in Range(LowerAZ)
    THEN <<UpperAZ[CHOOSE i \in DOMAIN LowerAZ : LowerAZ[i] = c]>>
  ELSE IF c = "uml_a" THEN <<"UML_A">>
  ELSE IF c = "uml_o" THEN <<"UML_O">>
  ELSE IF c = "uml_u" THEN <<"UML_U">>
  ELSE IF c = "eszett" THEN <<"S", "S">>
  ELSE IF c = "long_s" THEN <<"S">>
  ELSE IF c = "e_acute" THEN <<"E_ACUTE">>
  ELSE <<c>>

\* Applies a character-to-string map to every character of s.
MapChars(s, F(_)) == Concat([k \in DOMAIN s |-> F(s[k])])

toUpperCase(s) == MapChars(s, UpperChar)

\* Mutant of KeepLetter: the umlauts are not among the kept characters.
KeepLetter_PlainOnly(c) == IF c \in Range(UpperAZ) THEN <<c>> ELSE <<>>

\* .replace(/[^A-ZÄÖÜ]/g, '')
KeepLetter(c) == IF c \in Range(UpperAZ) \cup {"UML_A", "UML_O", "UML_U"} THEN <<c>> ELSE <<>>

\* Mutant of ReplaceAE: the replacement is written in lower case.
ReplaceAE_LowerCase(c) == IF c = "UML_A" THEN <<"a", "e">> ELSE <<c>>

\* .replace(/Ä/g, 'AE') .replace(/Ö/g, 'OE') .replace(/Ü/g, 'UE') .replace(/ß/g, 'SS')
ReplaceAE(c) == IF c = "UML_A" THEN <<"A", "E">> ELSE <<c>>

ReplaceOE(c) == IF c = "UML_O" THEN <<"O", "E">> ELSE <<c>>

ReplaceUE(c) == IF c = "UML_U" THEN <<"U", "E">> ELSE <<c>>

ReplaceSS(c) == IF c = "eszett" THEN <<"S", "S">> ELSE <<c>>

normalizeAnswer(answer) ==
  MapChars(MapChars(MapChars(MapChars(MapChars(toUpperCase(answer),
    KeepLetter), ReplaceAE), ReplaceOE), ReplaceUE), ReplaceSS)

normalizeWordEntry(entry) == [clue |-> entry.clue, answer |-> normalizeAnswer(entry.answer)]

(***************************************************************************)
(* models/CrosswordGrid: the grid class                                    *)
(***************************************************************************)
NoCells == [p \in {} |-> " "]

\* The value of a variable that holds null instead of a grid.
NoGrid == [width |-> 0, height |-> 0, cells |-> NoCells, placedWords |-> <<>>]

\* new CrosswordGrid(width, height)
NewGrid(width, height) ==
  [width |-> width, height |-> height, cells |-> NoCells, placedWords |-> <<>>]

\* Mutant of isInBounds: the edge just beyond the last row and column
\* counts as inside.
isInBounds_Inclusive(g, row, col) ==
  row >= 0 /\ row <= g.height /\ col >= 0 /\ col <= g.width

isInBounds(g, row, col) == row >= 0 /\ row < g.height /\ col >= 0 /\ col < g.width

getCell(g, row, col) ==
  IF ~isInBounds(g, row, col) THEN " "
  ELSE IF <<row, col>> \in DOMAIN g.cells THEN g.cells[<<row, col>>]
  ELSE " "

isEmpty(g, row, col) == getCell(g, row, col) = " "

\* The cell array after this.grid[row][col] = value for every in-bounds
\* coordinate of the domain of `writes` (coordinate -> value).
WriteCells(g, writes) ==
  LET inb == {p \in DOMAIN writes : isInBounds(g, p[1], p[2])}
      dom == {p \in (DOMAIN g.cells) \cup inb :
                IF p \in inb THEN writes[p] # " " ELSE TRUE}
  IN AsCells([p \in dom |-> IF p \in inb THEN writes[p] ELSE g.cells[p]])

setCell(g, row, col, value) ==
  [g EXCEPT !.cells = WriteCells(g, [p \in {<<row, col>>} |-> value])]

\* Coordinate of the letter at (0-based) index i of a placed word.
CellRow(w, i) == w.row + (IF w.direction = VERTICAL THEN i ELSE 0)

CellCol(w, i) == w.col + (IF w.direction = HORIZONTAL THEN i ELSE 0)

CellAt(w, i) == <<CellRow(w, i), CellCol(w, i)>>

\* The set of coordinates a placed word occupies.
Footprint(w) == {CellAt(w, i) : i \in 0..(Len(w.word) - 1)}

\* The letter a placed word puts on coordinate p of its footprint.
LetterAt(w, p) == w.word[(p[1] - w.row) + (p[2] - w.col) + 1]

addPlacedWord(g, w) ==
  [g EXCEPT !.placedWords = Append(g.placedWords, w),
            !.cells = WriteCells(g, [p \in Footprint(w) |-> LetterAt(w, p)])]

\* models/PlacedWord.ts
getEndRow(w) == IF w.direction = VERTICAL THEN w.row + Len(w.word) - 1 ELSE w.row

getEndCol(w) == IF w.direction = HORIZONTAL THEN w.col + Len(w.word) - 1 ELSE w.col

clone(g) ==
  [width |-> g.width, height |-> g.height,
   cells |-> AsCells([p \in DOMAIN g.cells |-> g.cells[p]]),
   placedWords |-> [i \in DOMAIN g.placedWords |->
                      [word |-> g.placedWords[i].word, clue |-> g.placedWords[i].clue,
                       row |-> g.placedWords[i].row, col |-> g.placedWords[i].col,
                       direction |-> g.placedWords[i].direction,
                       number |-> g.placedWords[i].number]]]

\* Mutant of removeLastPlacedWord: the cells of the remaining words are not
\* spared.
removeLastPlacedWord_ClearsAll(g) ==
  IF g.placedWords = <<>> THEN g
  ELSE LET word == g.placedWords[Len(g.placedWords)]
           popped == [g EXCEPT !.placedWords = SubSeq(g.placedWords, 1, Len(g.placedWords) - 1)]
       IN [popped EXCEPT !.cells = WriteCells(popped, [p \in Footprint(word) |-> " "])]

\* Mutant of removeLastPlacedWord: the word leaves the list and its letters
\* stay on the grid.
removeLastPlacedWord_KeepsCells(g) ==
  IF g.placedWords = <<>> THEN g
  ELSE [g EXCEPT !.placedWords = SubSeq(g.placedWords, 1, Len(g.placedWords) - 1)]

removeLastPlacedWord(g) ==
  IF g.placedWords = <<>> THEN g
  ELSE
    LET word == g.placedWords[Len(g.placedWords)]
        rest == SubSeq(g.placedWords, 1, Len(g.placedWords) - 1)
        usedCells == UNION {Footprint(rest[k]) : k \in DOMAIN rest}
        popped == [g EXCEPT !.placedWords = rest]
    IN [popped EXCEPT !.cells =
          WriteCells(popped, [p \in Footprint(word) \ usedCells |-> " "])]

(***************************************************************************)
(* services/WordPlacementService.ts: shared helpers                        *)
(***************************************************************************)
\* entries.map(normalizeWordEntry): every element is a new object; id stands
\* for the identity of that object (=== and !== compare it).
Normalize(es) ==
  [i \in DOMAIN es |-> [id |-> i, clue |-> normalizeWordEntry(es[i]).clue,
                        answer |-> normalizeWordEntry(es[i]).answer]]

\* Mutant of calculateGridSize: the number of letters does not count.
calculateGridSize_LongestOnly(es) ==
  Min(MAX_GRID_SIZE, MaxSeq([i \in DOMAIN es |-> Len(es[i].answer)]) + 4)

calculateGridSize(es) ==
  LET totalLength == SumSeq([i \in DOMAIN es |-> Len(es[i].answer)])
      longestWord == MaxSeq([i \in DOMAIN es |-> Len(es[i].answer)])
  IN Min(MAX_GRID_SIZE, Max(longestWord + 4, CeilSqrt(totalLength * 4)))

\* Mutant of PlacedWord: row and column exchanged.
PlacedWord_Transposed(word, clue, row, col, direction, number) ==
  [word |-> word, clue |-> clue, row |-> col, col |-> row,
   direction |-> direction, number |-> number]

\* Mutant of PlacedWord: the word is stored in the other direction.
PlacedWord_Turned(word, clue, row, col, direction, number) ==
  [word |-> word, clue |-> clue, row |-> row, col |-> col,
   direction |-> IF direction = HORIZONTAL THEN VERTICAL ELSE HORIZONTAL,
   number |-> number]

PlacedWord(word, clue, row, col, direction, number) ==
  [word |-> word, clue |-> clue, row |-> row, col |-> col,
   direction |-> direction, number |-> number]

placeFirstWord(g, entry, direction, gridSize) ==
  LET word == entry.answer
      startRow == IF direction = HORIZONTAL THEN gridSize \div 2
                  ELSE (gridSize - Len(word)) \div 2
      startCol == IF direction = HORIZONTAL THEN (gridSize - Len(word)) \div 2
                  ELSE gridSize \div 2
  IN addPlacedWord(g, PlacedWord(word, entry.clue, startRow, startCol, direction, 1))

getUniqueChars(word) == Range(word)

\* Number of occurrences of a character in all answers.
LetterFreq(es, ch) ==
  SumSeq([i \in DOMAIN es |-> Cardinality({k \in DOMAIN es[i].answer : es[i].answer[k] = ch})])

ConnectionScore(es, e) == SumSeq([k \in DOMAIN e.answer |-> LetterFreq(es, e.answer[k])])

sortByConnectionPotential(es) == SortDescBy(es, LAMBDA e : ConnectionScore(es, e))

SortLongestFirst(es) == SortDescBy(es, LAMBDA e : Len(e.answer))

BalancedScore(e) == Len(e.answer) + Cardinality(getUniqueChars(e.answer)) * 2

SortBalanced(es) == SortDescBy(es, BalancedScore)

\* Mutant of AfterSlice: the array itself is sorted or shuffled.
AfterSlice_InPlace(es, sorted) == sorted

\* entries.slice().sort(...), shuffleArray(entries.slice()): the array es
\* after its copy has been put into the order `sorted`.  The copy is a new
\* array, so es keeps its order.
AfterSlice(es, sorted) == es

GreedyStrategies == <<"longest-first", "most-connections", "balanced">>

\* `greedy-${strategy}`
GreedyNames == <<"greedy-longest-first", "greedy-most-connections", "greedy-balanced">>

SortFor(strategy, es) ==
  CASE strategy = "longest-first" -> SortLongestFirst(es)
    [] strategy = "most-connections" -> sortByConnectionPotential(es)
    [] strategy = "balanced" -> SortBalanced(es)

Option(row, col, direction, score) ==
  [row |-> row, col |-> col, direction |-> direction, score |-> score]

\* Coordinate of the letter at (0-based) index i of a word placed at an option.
OptRow(opt, i) == opt.row + (IF opt.direction = VERTICAL THEN i ELSE 0)

OptCol(opt, i) == opt.col + (IF opt.direction = HORIZONTAL THEN i ELSE 0)

findIntersections(newWord, existingWord) ==
  LET newDirection == IF existingWord.direction = HORIZONTAL THEN VERTICAL ELSE HORIZONTAL
      At(i, j) ==
        IF newDirection = HORIZONTAL
          THEN Option(CellRow(existingWord, j), CellCol(existingWord, j) - i,
                      newDirection, 20)
          ELSE Option(CellRow(existingWord, j) - i, CellCol(existingWord, j),
                      newDirection, 20)
  IN Concat([i \in 1..Len(newWord) |->
       Concat([j \in 1..Len(existingWord.word) |->
         IF newWord[i] = existingWord.word[j] THEN <<At(i - 1, j - 1)>> ELSE <<>>])])

\* Mutant of findAllPlacementOptions: an option whose anchor lies outside
\* the grid is left out.
findAllPlacementOptions_InBounds(g, word) ==
  SelectSeq(Concat([k \in DOMAIN g.placedWords |-> findIntersections(word, g.placedWords[k])]),
            LAMBDA o : isInBounds(g, o.row, o.col))

findAllPlacementOptions(g, word) ==
  Concat([k \in DOMAIN g.placedWords |-> findIntersections(word, g.placedWords[k])])

\* Mutant of canPlaceWord: a letter already on the grid is not compared with
\* the letter the word would put there.
canPlaceWord_NoLetterCheck(g, word, option) ==
  LET endRow == option.row + (IF option.direction = VERTICAL THEN Len(word) - 1 ELSE 0)
      endCol == option.col + (IF option.direction = HORIZONTAL THEN Len(word) - 1 ELSE 0)
      idx == 0..(Len(word) - 1)
      existing(i) == getCell(g, OptRow(option, i), OptCol(option, i))
      CellOk(i) ==
        IF existing(i) # " "
          THEN TRUE
          ELSE IF option.direction = HORIZONTAL
            THEN isEmpty(g, OptRow(option, i) - 1, OptCol(option, i))
                 /\ isEmpty(g, OptRow(option, i) + 1, OptCol(option, i))
            ELSE isEmpty(g, OptRow(option, i), OptCol(option, i) - 1)
                 /\ isEmpty(g, OptRow(option, i), OptCol(option, i) + 1)
      intersectionCount == Cardinality({i \in idx : existing(i) # " "})
  IN /\ isInBounds(g, option.row, option.col)
     /\ isInBounds(g, endRow, endCol)
     /\ \A i \in idx : CellOk(i)
     /\ intersectionCount # 0
     /\ IF option.direction = HORIZONTAL
          THEN isEmpty(g, option.row, option.col - 1) /\ isEmpty(g, option.row, endCol + 1)
          ELSE isEmpty(g, option.row - 1, option.col) /\ isEmpty(g, endRow + 1, option.col)

\* Mutant of canPlaceWord: the cells before and after the word are not
\* looked at.
canPlaceWord_NoEndCheck(g, word, option) ==
  LET endRow == option.row + (IF option.direction = VERTICAL THEN Len(word) - 1 ELSE 0)
      endCol == option.col + (IF option.direction = HORIZONTAL THEN Len(word) - 1 ELSE 0)
      idx == 0..(Len(word) - 1)
      existing(i) == getCell(g, OptRow(option, i), OptCol(option, i))
      CellOk(i) ==
        IF existing(i) # " "
          THEN existing(i) = word[i + 1]
          ELSE IF option.direction = HORIZONTAL
            THEN isEmpty(g, OptRow(option, i) - 1, OptCol(option, i))
                 /\ isEmpty(g, OptRow(option, i) + 1, OptCol(option, i))
            ELSE isEmpty(g, OptRow(option, i), OptCol(option, i) - 1)
                 /\ isEmpty(g, OptRow(option, i), OptCol(option, i) + 1)
  IN /\ isInBounds(g, option.row, option.col)
     /\ isInBounds(g, endRow, endCol)
     /\ \A i \in idx : CellOk(i)
     /\ \E i \in idx : existing(i) # " "

\* Mutant of canPlaceWord: the cells beside an empty cell of the word are
\* not looked at.
canPlaceWord_NoSideCheck(g, word, option) ==
  LET endRow == option.row + (IF option.direction = VERTICAL THEN Len(word) - 1 ELSE 0)
      endCol == option.col + (IF option.direction = HORIZONTAL THEN Len(word) - 1 ELSE 0)
      idx == 0..(Len(word) - 1)
      existing(i) == getCell(g, OptRow(option, i), OptCol(option, i))
      intersectionCount == Cardinality({i \in idx : existing(i) # " "})
  IN /\ isInBounds(g, option.row, option.col)
     /\ isInBounds(g, endRow, endCol)
     /\ \A i \in idx : existing(i) # " " => existing(i) = word[i + 1]
     /\ intersectionCount # 0
     /\ IF option.direction = HORIZONTAL
          THEN isEmpty(g, option.row, option.col - 1) /\ isEmpty(g, option.row, endCol + 1)
          ELSE isEmpty(g, option.row - 1, option.col) /\ isEmpty(g, endRow + 1, option.col)

canPlaceWord(g, word, option) ==
  LET endRow == option.row + (IF option.direction = VERTICAL THEN Len(word) - 1 ELSE 0)
      endCol == option.col + (IF option.direction = HORIZONTAL THEN Len(word) - 1 ELSE 0)
      idx == 0..(Len(word) - 1)
      existing(i) == getCell(g, OptRow(option, i), OptCol(option, i))
      CellOk(i) ==
        IF existing(i) # " "
          THEN existing(i) = word[i + 1]
          ELSE IF option.direction = HORIZONTAL
            THEN isEmpty(g, OptRow(option, i) - 1, OptCol(option, i))
                 /\ isEmpty(g, OptRow(option, i) + 1, OptCol(option, i))
            ELSE isEmpty(g, OptRow(option, i), OptCol(option, i) - 1)
                 /\ isEmpty(g, OptRow(option, i), OptCol(option, i) + 1)
      intersectionCount == Cardinality({i \in idx : existing(i) # " "})
  IN /\ isInBounds(g, option.row, option.col)
     /\ isInBounds(g, endRow, endCol)
     /\ \A i \in idx : CellOk(i)
     /\ intersectionCount # 0
     /\ IF option.direction = HORIZONTAL
          THEN isEmpty(g, option.row, option.col - 1) /\ isEmpty(g, option.row, endCol + 1)
          ELSE isEmpty(g, option.row - 1, option.col) /\ isEmpty(g, endRow + 1, option.col)

\* Number of the word's letters that already stand on the grid where the
\* option would put them.
Intersections(g, word, option) ==
  Cardinality({i \in 0..(Len(word) - 1) :
                 getCell(g, OptRow(option, i), OptCol(option, i)) = word[i + 1]})

\* 20 * (0.1 * distance to the centre (height / 2, width / 2))
Distance2(g, option) == Abs(2 * option.row - g.height) + Abs(2 * option.col - g.width)

countPotentialConnections(word, remainingEntries, currentIndex) ==
  Cardinality({i \in (currentIndex + 2)..Len(remainingEntries) :
                 \E ch \in Range(word) : ch \in Range(remainingEntries[i].answer)})

calculatePlacementScoreSimple(g, word, option) ==
  Intersections(g, word, option) * 200 - Distance2(g, option)

calculatePlacementScore(g, word, option, remainingEntries, currentIndex) ==
  Intersections(g, word, option) * 200 - Distance2(g, option)
    + countPotentialConnections(word, remainingEntries, currentIndex) * 40

WithScore(option, score) == [option EXCEPT !.score = score]

\* Mutant of SortByScore: the lowest score comes first.
SortByScore_Ascending(options) == SortDescBy(options, LAMBDA o : -o.score)

SortByScore(options) == SortDescBy(options, LAMBDA o : o.score)

\* Mutant of placeWordGreedy: every option is tried.
placeWordGreedy_TriesAll(g, entry, allEntries, currentIndex) ==
  LET word == entry.answer
      found == findAllPlacementOptions(g, word)
      scored == AsSeq([k \in DOMAIN found |->
                   WithScore(found[k],
                     calculatePlacementScore(g, word, found[k], allEntries, currentIndex))])
      options == SortByScore(scored)
      accepted == {i \in DOMAIN options : canPlaceWord(g, word, options[i])}
  IN IF accepted = {} THEN [ok |-> FALSE, grid |-> g]
     ELSE LET option == options[CHOOSE i \in accepted : \A k \in accepted : i <= k]
          IN [ok |-> TRUE,
              grid |-> addPlacedWord(g, PlacedWord(word, entry.clue, option.row,
                                                   option.col, option.direction, 0))]

\* placeWordGreedy: [ok |-> the value returned, grid |-> the grid afterwards]
placeWordGreedy(g, entry, allEntries, currentIndex) ==
  LET word == entry.answer
      found == findAllPlacementOptions(g, word)
      scored == AsSeq([k \in DOMAIN found |->
                   WithScore(found[k],
                     calculatePlacementScore(g, word, found[k], allEntries, currentIndex))])
      options == SortByScore(scored)
      tryCount == Min(GreedyTries, Len(options))
      accepted == {i \in 1..tryCount : canPlaceWord(g, word, options[i])}
  IN IF accepted = {} THEN [ok |-> FALSE, grid |-> g]
     ELSE LET option == options[CHOOSE i \in accepted : \A k \in accepted : i <= k]
          IN [ok |-> TRUE,
              grid |-> addPlacedWord(g, PlacedWord(word, entry.clue, option.row,
                                                   option.col, option.direction, 0))]

(***************************************************************************)
(* Post-processing: optimizeGrid and assignNumbers                         *)
(***************************************************************************)
\* The crop box of optimizeGrid: bounding box of the words plus a margin of
\* one cell, clamped to the grid.
CropBox(g) ==
  LET ws == g.placedWords
  IN [minRow |-> Max(0, MinSeq([k \in DOMAIN ws |-> ws[k].row]) - 1),
      minCol |-> Max(0, MinSeq([k \in DOMAIN ws |-> ws[k].col]) - 1),
      maxRow |-> Min(g.height - 1, MaxSeq([k \in DOMAIN ws |-> getEndRow(ws[k])]) + 1),
      maxCol |-> Min(g.width - 1, MaxSeq([k \in DOMAIN ws |-> getEndCol(ws[k])]) + 1)]

Shifted(g) ==
  LET box == CropBox(g)
  IN AsSeq([k \in DOMAIN g.placedWords |->
        [g.placedWords[k] EXCEPT !.row = @ - box.minRow, !.col = @ - box.minCol]])

\* newGrid[r][c] = ... raises a TypeError when newGrid has no row r (a column
\* outside the row array only sets a property that no cell read ever sees).
OptimizeThrows(g) ==
  /\ g.placedWords # <<>>
  /\ LET box == CropBox(g)
         newHeight == box.maxRow - box.minRow + 1
     IN \E k \in DOMAIN g.placedWords : \E i \in 0..(Len(g.placedWords[k].word) - 1) :
          CellRow(Shifted(g)[k], i) \notin 0..(newHeight - 1)

\* The grid after optimizeGrid returns normally.
optimizeGrid(g) ==
  IF g.placedWords = <<>> THEN g
  ELSE
    LET box == CropBox(g)
        words == Shifted(g)
        blank == [width |-> box.maxCol - box.minCol + 1,
                  height |-> box.maxRow - box.minRow + 1,
                  cells |-> NoCells, placedWords |-> words]
        RECURSIVE Paint(_)
        Paint(k) ==
          IF k = 0 THEN blank
          ELSE LET prev == Paint(k - 1)
               IN [prev EXCEPT !.cells =
                     WriteCells(prev, [p \in Footprint(words[k]) |-> LetterAt(words[k], p)])]
    IN Paint(Len(words))

\* Mutant of assignNumbers: every word of the sorted list gets a number of
\* its own.
assignNumbers_PerWord(g) ==
  LET sorted == Sort(AsSeq([k \in DOMAIN g.placedWords |-> [g.placedWords[k] EXCEPT !.number = k]]),
                     LAMBDA a, b : IF a.row # b.row THEN a.row - b.row < 0
                                   ELSE a.col - b.col < 0)
      NumberOf(k) == CHOOSE j \in DOMAIN sorted : sorted[j].number = k
  IN [g EXCEPT !.placedWords =
        [k \in DOMAIN g.placedWords |-> [g.placedWords[k] EXCEPT !.number = NumberOf(k)]]]

assignNumbers(g) ==
  LET sorted == Sort(g.placedWords,
                     LAMBDA a, b : IF a.row # b.row THEN a.row - b.row < 0
                                   ELSE a.col - b.col < 0)
      Key(w) == <<w.row, w.col>>
      \* positionNumbers.get(key): the keys are numbered in the order in which
      \* the walk over `sorted` first meets them.
      NumberOf(key) ==
        LET first == CHOOSE j \in DOMAIN sorted :
                       /\ Key(sorted[j]) = key
                       /\ \A m \in 1..(j - 1) : Key(sorted[m]) # key
        IN Cardinality({Key(sorted[m]) : m \in 1..first})
  IN [g EXCEPT !.placedWords =
        [k \in DOMAIN g.placedWords |->
           [g.placedWords[k] EXCEPT !.number = NumberOf(Key(g.placedWords[k]))]]]

(***************************************************************************)
(* State: one call of generateLayout(entries)                              *)
(***************************************************************************)
VARIABLES
  entries,       \* the argument of generateLayout
  pc,            \* the statement generateLayout (or the strategy it runs) is at
  normalized,    \* generateLayout: normalized
  bestGrid,      \* generateLayout: bestGrid (NoGrid for null)
  bestCount,     \* generateLayout: bestCount
  bestStrategy,  \* generateLayout: bestStrategy
  greedyIdx,     \* generateLayout: position of the loop over the greedy orderings
  error,         \* the message of the Error generateLayout threw ("" for none)
  returned,      \* the grid generateLayout returned (NoGrid before it returns)
  attempts,      \* what each strategy call ended with, in call order
  grid,          \* the grid the running strategy works on
  order,         \* tryGreedy: sortedEntries; tryRandomRestarts: shuffled;
                 \* tryBacktracking: sortedEntries
  i,             \* the running loop's index (0-based, as in the code)
  unplaced,      \* tryGreedy / tryRandomRestarts: unplaced
  expired,       \* Date.now() > deadline, for the running strategy's deadline
  iterations,    \* tryRandomRestarts: iterations
  localGrid,     \* tryRandomRestarts / tryBacktracking: bestGrid
  localCount,    \* tryRandomRestarts / tryBacktracking / tryBeamSearch: bestCount
  firstIdx,      \* tryBacktracking: firstIdx
  dirIdx,        \* tryBacktracking: position of the loop over firstDir
  stack,         \* the activation records of backtrackDFS, innermost last
  ret,           \* the value the last backtrackDFS call returned
  beam,          \* tryBeamSearch: beam
  bestState,     \* tryBeamSearch: bestState (NoState for null)
  step,          \* tryBeamSearch: step
  heap,          \* the objects of a run of the grid's methods: object id -> object
  original,      \* the id of the grid clone() is called on (0 for none)
  copy,          \* the id of the grid clone() returned (0 for none)
  call,          \* the last method call: method, receiver (a grid's id), args, result,
                 \* threw (the name of the error it raised, "" for none)
  calls,         \* the number of methods called so far
  puzzle,        \* the CrosswordPuzzle createPuzzle returned, or the one to serialize
  hash,          \* the string serialize returned
  deflated,      \* the bytes deflate returned inside serialize
  parsed         \* what deserialize returned

vars == <<entries, pc, normalized, bestGrid, bestCount, bestStrategy, greedyIdx, error,
          returned, attempts, grid, order, i, unplaced, expired, iterations, localGrid,
          localCount, firstIdx, dirIdx, stack, ret, beam, bestState, step, heap, original,
          copy, call, calls, puzzle, hash, deflated, parsed>>

\* generateLayout's own variables
mainVars == <<normalized, bestGrid, bestCount, bestStrategy, greedyIdx, error, returned,
              attempts>>

\* mainVars without the normalized list
bestVars == <<bestGrid, bestCount, bestStrategy, greedyIdx, error, returned, attempts>>

passVars == <<grid, order, i, unplaced>>

restartVars == <<iterations>>

dfsVars == <<firstIdx, dirIdx, stack, ret>>

beamVars == <<beam, bestState, step>>

\* the variables of the runs of the grid's own methods
unitVars == <<heap, original, copy, call, calls, puzzle, hash, deflated, parsed>>

NoState == [grid |-> NoGrid, placed |-> {}, score |-> 0]

ERR_NO_WORDS == "No words provided"

ERR_SHORTFALL == "Could not place enough words to create a crossword"

ERR_RESTARTS == "Random restarts found no improvement"

ERR_BACKTRACKING == "Backtracking found no solution"

ERR_BEAM == "Beam search did not improve"

ERR_TYPE == "TypeError"

(***************************************************************************)
(* Inputs                                                                  *)
(***************************************************************************)
\* The answers the entries are drawn from, as typed by the user.
LongAnswer == [k \in 1..(MAX_GRID_SIZE + 1) |-> LowerAZ[((k - 1) % Len(LowerAZ)) + 1]]

ShortAnswers == { <<"a", "b">>, <<"B", " ", "a">>, <<"uml_a">>, <<"1">> }

RawAnswers == ShortAnswers \cup {LongAnswer}

\* The lists of n answers; at most one of them is the long answer.
AnswerLists(n) ==
  {a \in [1..n -> RawAnswers] :
     \A j, k \in 1..n : a[j] = LongAnswer /\ a[k] = LongAnswer => j = k}

Clues == <<"Q1", "Q2", "Q3", "Q4", "Q5", "Q6">>

EntriesOf(a) == [k \in DOMAIN a |-> [clue |-> Clues[k], answer |-> a[k]]]

\* Two answers of ten letters: the second one has 27 crossings with the
\* first one that leave the grid and rank above its only crossing inside
\* the grid (through the B).
ManyCrossings ==
  << <<"b", "a", "a", "a", "a", "a", "a", "a", "a", "a">>,
     <<"a", "a", "a", "b", "c", "c", "c", "c", "c", "c">> >>

\* Further lists: three answers that can cross and one without any
\* letter; four answers that can all be placed; and four answers of which
\* the last one (CE) meets, at its only crossing with ABC, the end of DGD;
\* the two answers of ManyCrossings; and five answers of which two are
\* equal (AB), one crosses both AB and CE (EA) and one has no letter; and
\* two answers with nine crossings (AAA) beside one without any letter;
\* and five answers of two letters, whose ten letters ask for a wider grid
\* than the longest answer does.
LongerLists ==
  { << <<"a", "b">>, <<"a", "b">>, <<"B", " ", "a">>, <<"1">> >>,
    << <<"uml_a">>, <<"B", " ", "a">>, <<"uml_a">>, <<"a", "b">> >>,
    << <<"a", "b", "c">>, <<"a", "f", "d">>, <<"d", "g", "d">>, <<"c", "e">> >>,
    << ManyCrossings[1], ManyCrossings[2] >>,
    << <<"c", "e">>, <<"a", "b">>, <<"a", "b">>, <<"e", "a">>, <<"1">> >>,
    << <<"a", "a", "a">>, <<"a", "a", "a">>, <<"1">> >>,
    << <<"a", "b">>, <<"b", "c">>, <<"c", "d">>, <<"d", "e">>, <<"e", "a">> >> }

Inputs ==
  UNION { { EntriesOf(a) : a \in AnswerLists(n) } : n \in 0..MaxEntries }
    \cup {EntriesOf(a) : a \in LongerLists}

\* Nothing has run yet.
Fresh ==
  /\ normalized = <<>>
  /\ bestGrid = NoGrid
  /\ bestCount = 0
  /\ bestStrategy = ""
  /\ greedyIdx = 0
  /\ error = ""
  /\ returned = NoGrid
  /\ attempts = <<>>
  /\ grid = NoGrid
  /\ order = <<>>
  /\ i = 0
  /\ unplaced = <<>>
  /\ expired = FALSE
  /\ iterations = 0
  /\ localGrid = NoGrid
  /\ localCount = 0
  /\ firstIdx = 0
  /\ dirIdx = 0
  /\ stack = <<>>
  /\ ret = NoGrid
  /\ beam = <<>>
  /\ bestState = NoState
  /\ step = 0

NoCall == [method |-> "", receiver |-> 0, args |-> <<>>, result |-> "", threw |-> ""]

\* The value of puzzle before there is one, and of parsed before
\* deserialize returned.
NoPuzzle == [title |-> <<>>, grid |-> NoGrid, acrossClues |-> <<>>, downClues |-> <<>>]

\* No puzzle has been made or serialized.
NoPuzzles ==
  /\ puzzle = NoPuzzle
  /\ hash = <<>>
  /\ deflated = <<>>
  /\ parsed = NoPuzzle

\* No method of a grid has been called on its own.
NoObjects ==
  /\ heap = <<>>
  /\ original = 0
  /\ copy = 0
  /\ call = NoCall
  /\ calls = 0
  /\ NoPuzzles

\* generateLayout has been called and has not run yet.
Called == pc = "start" /\ Fresh

Init == entries \in Inputs /\ Called /\ NoObjects

\* The locals of a strategy call go out of scope when it ends.
DropLocals ==
  /\ grid' = NoGrid
  /\ order' = <<>>
  /\ i' = 0
  /\ unplaced' = <<>>
  /\ expired' = FALSE
  /\ iterations' = 0
  /\ localGrid' = NoGrid
  /\ localCount' = 0
  /\ firstIdx' = 0
  /\ dirIdx' = 0
  /\ stack' = <<>>
  /\ ret' = NoGrid
  /\ beam' = <<>>
  /\ bestState' = NoState
  /\ step' = 0

target == Len(normalized)

(***************************************************************************)
(* generateLayout                                                          *)
(***************************************************************************)
\* What a strategy call ended with: it returned a GridState or threw.
Returned(name, g, placedCount) ==
  [name |-> name, threw |-> FALSE, message |-> "", grid |-> g, placedCount |-> placedCount]

Threw(name, message) ==
  [name |-> name, threw |-> TRUE, message |-> message, grid |-> NoGrid, placedCount |-> 0]

\* Mutant of BestCountAfter: the count from before the call decides what
\* runs next.
BestCountAfter_Stale(res) == bestCount

\* The value of bestCount after the try block around a strategy call:
\* updateBest(result, name) if the call returned, nothing if it threw.
BestCountAfter(res) ==
  IF ~res.threw /\ res.placedCount > bestCount THEN res.placedCount ELSE bestCount

\* Mutant of updateBest: a result with as many placed words as the best one
\* replaces it.
updateBest_OnTie(res) ==
  /\ attempts' = Append(attempts, [name |-> res.name, threw |-> res.threw,
                                    message |-> res.message,
                                    placedCount |-> res.placedCount])
  /\ IF ~res.threw /\ res.placedCount >= bestCount
       THEN /\ bestGrid' = res.grid
            /\ bestCount' = res.placedCount
            /\ bestStrategy' = res.name
       ELSE UNCHANGED <<bestGrid, bestCount, bestStrategy>>

\* try { updateBest(<strategy call>, name) } catch { }
updateBest(res) ==
  /\ attempts' = Append(attempts, [name |-> res.name, threw |-> res.threw,
                                    message |-> res.message,
                                    placedCount |-> res.placedCount])
  /\ IF ~res.threw /\ res.placedCount > bestCount
       THEN /\ bestGrid' = res.grid
            /\ bestCount' = res.placedCount
            /\ bestStrategy' = res.name
       ELSE UNCHANGED <<bestGrid, bestCount, bestStrategy>>

\* Mutant of Catch: what a strategy throws leaves generateLayout.
Catch_Rethrows(res, next) ==
  IF res.threw THEN [pc |-> "done", error |-> res.message]
  ELSE [pc |-> next, error |-> error]

\* The empty catch blocks around the strategy calls: whether the call (res)
\* returned or threw, generateLayout goes on with the statement `next` and
\* raises nothing itself.
Catch(res, next) == [pc |-> next, error |-> error]

\* Mutant of Shortfall: any grid is enough.
Shortfall_NoGridOnly(g, count) == g = NoGrid

\* Mutant of Shortfall: two placed words are enough.
Shortfall_BelowTwo(g, count) == g = NoGrid \/ count < MinPlaced - 1

\* if (!bestGrid || bestCount < 3)
Shortfall(g, count) == g = NoGrid \/ count < MinPlaced

\* optimizeGrid(g); assignNumbers(g); return {grid: g, placedCount}, or the
\* TypeError optimizeGrid raises.
PostProcess(name, g, placedCount) ==
  IF OptimizeThrows(g) THEN Threw(name, ERR_TYPE)
  ELSE Returned(name, assignNumbers(optimizeGrid(g)), placedCount)

Start ==
  /\ pc = "start"
  /\ IF Len(entries) = 0
       THEN /\ error' = ERR_NO_WORDS
            /\ pc' = "done"
            /\ UNCHANGED <<normalized, greedyIdx>>
       ELSE /\ normalized' = Normalize(entries)
            /\ greedyIdx' = 1
            /\ pc' = "greedy"
            /\ error' = error
  /\ UNCHANGED <<entries, unitVars, bestGrid, bestCount, bestStrategy, returned, attempts>>
  /\ UNCHANGED <<passVars, expired, restartVars, localGrid, localCount, dfsVars, beamVars>>

Finish ==
  /\ pc = "final"
  /\ IF Shortfall(bestGrid, bestCount)
       THEN error' = ERR_SHORTFALL /\ returned' = returned
       ELSE returned' = bestGrid /\ error' = error
  /\ pc' = "done"
  /\ UNCHANGED <<entries, unitVars, normalized, bestGrid, bestCount, bestStrategy, greedyIdx, attempts>>
  /\ UNCHANGED <<passVars, expired, restartVars, localGrid, localCount, dfsVars, beamVars>>

(***************************************************************************)
(* tryGreedy                                                               *)
(***************************************************************************)
GreedyBegin ==
  /\ pc = "greedy"
  /\ LET sortedEntries == SortFor(GreedyStrategies[greedyIdx], normalized)
         gridSize == calculateGridSize(normalized)
     IN /\ order' = sortedEntries
        /\ normalized' = AfterSlice(normalized, sortedEntries)
        /\ grid' = placeFirstWord(NewGrid(gridSize, gridSize), sortedEntries[1],
                                  HORIZONTAL, gridSize)
  /\ i' = 1
  /\ unplaced' = <<>>
  /\ pc' = "greedyFirstPass"
  /\ UNCHANGED <<entries, unitVars, bestVars, expired, restartVars, localGrid, localCount, dfsVars,
                 beamVars>>

GreedyFirstPass ==
  /\ pc = "greedyFirstPass"
  /\ IF i < Len(order)
       THEN LET entry == order[i + 1]
                placed == placeWordGreedy(grid, entry, order, i)
            IN /\ grid' = placed.grid
               /\ unplaced' = IF placed.ok THEN unplaced ELSE Append(unplaced, entry)
               /\ i' = i + 1
               /\ pc' = pc
       ELSE /\ i' = 0
            /\ pc' = "greedySecondPass"
            /\ UNCHANGED <<grid, unplaced>>
  /\ UNCHANGED <<entries, unitVars, mainVars, order, expired, restartVars, localGrid, localCount,
                 dfsVars, beamVars>>

GreedySecondPass ==
  /\ pc = "greedySecondPass"
  /\ IF i < Len(unplaced)
       THEN /\ grid' = placeWordGreedy(grid, unplaced[i + 1], order, Len(order)).grid
            /\ i' = i + 1
            /\ pc' = pc
       ELSE /\ pc' = "greedyEnd"
            /\ UNCHANGED <<grid, i>>
  /\ UNCHANGED <<entries, unitVars, mainVars, order, unplaced, expired, restartVars, localGrid,
                 localCount, dfsVars, beamVars>>

\* The end of tryGreedy and the rest of the loop body of generateLayout.
GreedyEnd ==
  /\ pc = "greedyEnd"
  /\ LET res == PostProcess(GreedyNames[greedyIdx], grid, Len(grid.placedWords))
         break == ~res.threw /\ BestCountAfter(res) = target
         more == ~break /\ greedyIdx < Len(GreedyStrategies)
         after == Catch(res, IF more THEN "greedy"
                             ELSE IF BestCountAfter(res) < target THEN "restarts"
                             ELSE "final")
     IN /\ updateBest(res)
        /\ greedyIdx' = IF more THEN greedyIdx + 1 ELSE greedyIdx
        /\ pc' = after.pc
        /\ error' = after.error
  /\ DropLocals
  /\ UNCHANGED <<entries, unitVars, normalized, returned>>

(***************************************************************************)
(* tryRandomRestarts                                                       *)
(***************************************************************************)
\* The values a read of the clock can give to Date.now() > deadline: time
\* does not run backwards, so a deadline that has passed stays passed.
ClockReads == IF expired THEN {TRUE} ELSE {FALSE, TRUE}

\* shuffleArray(entries.slice()): any permutation
Shuffles(es) == {[k \in DOMAIN es |-> es[p[k]]] : p \in Perms(Len(es))}

RestartsBegin ==
  /\ pc = "restarts"
  /\ expired' = FALSE
  /\ localGrid' = NoGrid
  /\ localCount' = bestCount
  /\ iterations' = 0
  /\ pc' = "restartsLoop"
  /\ UNCHANGED <<entries, unitVars, mainVars, passVars, dfsVars, beamVars>>

\* while (Date.now() < deadline): the shuffle, the first direction, the new
\* grid and its first word.
RestartsLoop ==
  /\ pc = "restartsLoop"
  /\ \E late \in ClockReads :
       /\ expired' = late
       /\ IF late \/ iterations >= MaxRestarts
            THEN /\ pc' = "restartsEnd"
                 /\ UNCHANGED <<passVars, iterations, normalized>>
            ELSE \E shuffled \in Shuffles(normalized) : \E firstDir \in Range(Directions) :
                   LET gridSize == calculateGridSize(normalized)
                   IN /\ iterations' = iterations + 1
                      /\ order' = shuffled
                      /\ normalized' = AfterSlice(normalized, shuffled)
                      /\ grid' = placeFirstWord(NewGrid(gridSize, gridSize), shuffled[1],
                                                firstDir, gridSize)
                      /\ i' = 1
                      /\ unplaced' = <<>>
                      /\ pc' = "restartsFirstPass"
  /\ UNCHANGED <<entries, unitVars, bestVars, localGrid, localCount, dfsVars, beamVars>>

RestartsFirstPass ==
  /\ pc = "restartsFirstPass"
  /\ IF i < Len(order)
       THEN /\ grid' = placeWordGreedy(grid, order[i + 1], order, i).grid
            /\ i' = i + 1
            /\ pc' = pc
            /\ unplaced' = unplaced
       ELSE LET placedWords == {grid.placedWords[k].word : k \in DOMAIN grid.placedWords}
            IN /\ unplaced' = Filter(order, LAMBDA e : e.answer \notin placedWords)
               /\ i' = 0
               /\ pc' = "restartsSecondPass"
               /\ grid' = grid
  /\ UNCHANGED <<entries, unitVars, mainVars, order, expired, restartVars, localGrid, localCount,
                 dfsVars, beamVars>>

RestartsSecondPass ==
  /\ pc = "restartsSecondPass"
  /\ IF i < Len(unplaced)
       THEN /\ grid' = placeWordGreedy(grid, unplaced[i + 1], order, Len(order)).grid
            /\ i' = i + 1
            /\ pc' = pc
            /\ UNCHANGED <<localGrid, localCount>>
       ELSE /\ IF Len(grid.placedWords) > localCount
                 THEN /\ localGrid' = grid
                      /\ localCount' = Len(grid.placedWords)
                      /\ pc' = IF Len(grid.placedWords) = Len(normalized)
                                 THEN "restartsEnd" ELSE "restartsLoop"
                 ELSE /\ pc' = "restartsLoop"
                      /\ UNCHANGED <<localGrid, localCount>>
            /\ UNCHANGED <<grid, i>>
  /\ UNCHANGED <<entries, unitVars, mainVars, order, unplaced, expired, restartVars, dfsVars, beamVars>>

\* The end of tryRandomRestarts and generateLayout up to the next strategy.
RestartsEnd ==
  /\ pc = "restartsEnd"
  /\ LET res == IF localGrid = NoGrid THEN Threw("random-restarts", ERR_RESTARTS)
                ELSE PostProcess("random-restarts", localGrid, localCount)
         after == Catch(res, IF BestCountAfter(res) < target THEN "backtracking" ELSE "final")
     IN /\ updateBest(res)
        /\ pc' = after.pc
        /\ error' = after.error
  /\ DropLocals
  /\ UNCHANGED <<entries, unitVars, normalized, greedyIdx, returned>>

(***************************************************************************)
(* tryBacktracking and backtrackDFS                                        *)
(***************************************************************************)
\* Mutant of Call: the call does not get the best count of its caller.
Call_NoBest(remaining, bestSoFar) ==
  [at |-> "enter", remaining |-> remaining, bestSoFar |-> 0,
   chosen |-> [id |-> 0, clue |-> "", answer |-> <<>>], options |-> <<>>,
   newRemaining |-> <<>>, k |-> 0, bestResult |-> NoGrid, localBest |-> 0]

\* An activation record of backtrackDFS(grid, remaining, bestSoFar, deadline).
\* at: "enter" (called, body not yet run), "loop" (at the head of the loop
\* over the options), "inTry" (in the recursive call of the loop body),
\* "skip" (after the loop), "inSkip" (in the recursive call that skips the
\* chosen word).  The grid is the one object all activations share.
Call(remaining, bestSoFar) ==
  [at |-> "enter", remaining |-> remaining, bestSoFar |-> bestSoFar,
   chosen |-> [id |-> 0, clue |-> "", answer |-> <<>>], options |-> <<>>,
   newRemaining |-> <<>>, k |-> 0, bestResult |-> NoGrid, localBest |-> bestSoFar]

Top == stack[Len(stack)]

\* The stack with its innermost record replaced, and with a new call on top.
SetTop(frame) == [stack EXCEPT ![Len(stack)] = frame]

\* return value: back to the caller, which is the record below or, for the
\* outermost call, tryBacktracking.
Return(value) ==
  /\ stack' = SubSeq(stack, 1, Len(stack) - 1)
  /\ ret' = value
  /\ pc' = IF Len(stack) = 1 THEN "backtrackingResult" ELSE pc

\* Mutant of RemainingWithout: the chosen entry stays in the list.
RemainingWithout_Keeps(remaining, entry) == remaining

\* remaining.filter(e => e !== chosen.entry)
RemainingWithout(remaining, entry) == Filter(remaining, LAMBDA e : e.id # entry.id)

\* The valid options of every remaining word, in the order of `remaining`.
WordOptions(g, remaining) ==
  AsSeq([k \in DOMAIN remaining |->
     [entry |-> remaining[k],
      options |-> Filter(findAllPlacementOptions(g, remaining[k].answer),
                         LAMBDA opt : canPlaceWord(g, remaining[k].answer, opt))]])

BacktrackingBegin ==
  /\ pc = "backtracking"
  /\ expired' = FALSE
  /\ localGrid' = NoGrid
  /\ localCount' = bestCount
  /\ order' = sortByConnectionPotential(normalized)
  /\ normalized' = AfterSlice(normalized, sortByConnectionPotential(normalized))
  /\ firstIdx' = 0
  /\ dirIdx' = 1
  /\ pc' = "backtrackingLoop"
  /\ UNCHANGED <<entries, unitVars, bestVars, grid, i, unplaced, restartVars, stack, ret, beamVars>>

\* The head of the loops over firstIdx and firstDir, and the loop body up to
\* the call of backtrackDFS.
BacktrackingLoop ==
  /\ pc = "backtrackingLoop"
  /\ IF firstIdx >= Len(order)
       THEN /\ pc' = "backtrackingEnd"
            /\ UNCHANGED <<grid, stack, expired>>
       ELSE IF dirIdx > Len(Directions)
         THEN /\ pc' = "backtrackingOuter"
              /\ UNCHANGED <<grid, stack, expired>>
         ELSE \E late \in ClockReads :
                /\ expired' = late
                /\ IF late
                     THEN /\ pc' = "backtrackingOuter"
                          /\ UNCHANGED <<grid, stack>>
                     ELSE LET gridSize == calculateGridSize(normalized)
                              remaining == [k \in 1..(Len(order) - 1) |->
                                              IF k <= firstIdx THEN order[k] ELSE order[k + 1]]
                          IN /\ grid' = placeFirstWord(NewGrid(gridSize, gridSize),
                                                       order[firstIdx + 1],
                                                       Directions[dirIdx], gridSize)
                             /\ stack' = <<Call(remaining, localCount)>>
                             /\ pc' = "dfs"
  /\ UNCHANGED <<entries, unitVars, mainVars, order, i, unplaced, restartVars, localGrid, localCount,
                 firstIdx, dirIdx, ret, beamVars>>

\* The loop body after backtrackDFS returned.
BacktrackingResult ==
  /\ pc = "backtrackingResult"
  /\ IF ret # NoGrid /\ Len(ret.placedWords) > localCount
       THEN /\ localGrid' = ret
            /\ localCount' = Len(ret.placedWords)
            /\ IF Len(ret.placedWords) = Len(normalized)
                 THEN pc' = "backtrackingOuter" /\ dirIdx' = dirIdx
                 ELSE pc' = "backtrackingLoop" /\ dirIdx' = dirIdx + 1
       ELSE /\ pc' = "backtrackingLoop"
            /\ dirIdx' = dirIdx + 1
            /\ UNCHANGED <<localGrid, localCount>>
  /\ UNCHANGED <<entries, unitVars, mainVars, passVars, expired, restartVars, firstIdx, stack, ret,
                 beamVars>>

\* if (bestCount === entries.length || Date.now() > deadline) break;
BacktrackingOuter ==
  /\ pc = "backtrackingOuter"
  /\ IF localCount = Len(normalized)
       THEN /\ pc' = "backtrackingEnd"
            /\ UNCHANGED <<expired, firstIdx, dirIdx>>
       ELSE \E late \in ClockReads :
              /\ expired' = late
              /\ IF late
                   THEN pc' = "backtrackingEnd" /\ UNCHANGED <<firstIdx, dirIdx>>
                   ELSE pc' = "backtrackingLoop" /\ firstIdx' = firstIdx + 1 /\ dirIdx' = 1
  /\ UNCHANGED <<entries, unitVars, mainVars, passVars, restartVars, localGrid, localCount, stack, ret,
                 beamVars>>

\* The end of tryBacktracking and generateLayout up to the next strategy.
BacktrackingEnd ==
  /\ pc = "backtrackingEnd"
  /\ LET res == IF localGrid = NoGrid THEN Threw("backtracking", ERR_BACKTRACKING)
                ELSE PostProcess("backtracking", localGrid, localCount)
         after == Catch(res, IF BestCountAfter(res) < target THEN "beam" ELSE "final")
     IN /\ updateBest(res)
        /\ pc' = after.pc
        /\ error' = after.error
  /\ DropLocals
  /\ UNCHANGED <<entries, unitVars, normalized, greedyIdx, returned>>

\* backtrackDFS from its first statement to the head of the loop.
DFSEnter ==
  /\ pc = "dfs"
  /\ Top.at = "enter"
  /\ \E late \in ClockReads :
       /\ expired' = late
       /\ IF late THEN Return(NoGrid)
          ELSE IF Len(grid.placedWords) + Len(Top.remaining) <= Top.bestSoFar
            THEN Return(NoGrid)
          ELSE IF Len(Top.remaining) = 0 THEN Return(clone(grid))
          ELSE
            LET wordOptions == WordOptions(grid, Top.remaining)
                placeable == SortDescBy(Filter(wordOptions, LAMBDA w : Len(w.options) > 0),
                                        LAMBDA w : -Len(w.options))
            IN IF Len(placeable) = 0
                 THEN IF Len(grid.placedWords) > Top.bestSoFar
                        THEN Return(clone(grid))
                        ELSE Return(NoGrid)
                 ELSE
                   LET chosen == placeable[1]
                       newRemaining == RemainingWithout(Top.remaining, chosen.entry)
                       scored == AsSeq([k \in DOMAIN chosen.options |->
                                    WithScore(chosen.options[k],
                                      calculatePlacementScore(grid, chosen.entry.answer,
                                        chosen.options[k], newRemaining, 0))])
                   IN /\ stack' = SetTop([Top EXCEPT !.at = "loop",
                                                     !.chosen = chosen.entry,
                                                     !.options = SortByScore(scored),
                                                     !.newRemaining = newRemaining])
                      /\ UNCHANGED <<pc, ret>>
  /\ UNCHANGED <<entries, unitVars, mainVars, passVars, restartVars, localGrid, localCount, firstIdx,
                 dirIdx, beamVars>>

\* The head of the loop over the options and the loop body up to the
\* recursive call.
DFSTry ==
  /\ pc = "dfs"
  /\ Top.at = "loop"
  /\ IF Top.k < Min(Len(Top.options), DfsTries)
       THEN \E late \in ClockReads :
              /\ expired' = late
              /\ IF late
                   THEN /\ stack' = SetTop([Top EXCEPT !.at = "skip"])
                        /\ grid' = grid
                   ELSE LET option == Top.options[Top.k + 1]
                        IN /\ grid' = addPlacedWord(grid,
                                        PlacedWord(Top.chosen.answer, Top.chosen.clue,
                                                   option.row, option.col,
                                                   option.direction, 0))
                           /\ stack' = Append(SetTop([Top EXCEPT !.at = "inTry"]),
                                              Call(Top.newRemaining, Top.localBest))
       ELSE /\ stack' = SetTop([Top EXCEPT !.at = "skip"])
            /\ UNCHANGED <<grid, expired>>
  /\ UNCHANGED <<entries, unitVars, mainVars, pc, order, i, unplaced, restartVars, localGrid,
                 localCount, firstIdx, dirIdx, ret, beamVars>>

\* The loop body after the recursive call returned.
DFSAfterTry ==
  /\ pc = "dfs"
  /\ Top.at = "inTry"
  /\ LET better == ret # NoGrid /\ Len(ret.placedWords) > Top.localBest
         bestResult == IF better THEN ret ELSE Top.bestResult
         localBest == IF better THEN Len(ret.placedWords) ELSE Top.localBest
         undone == removeLastPlacedWord(grid)
     IN /\ grid' = undone
        /\ IF localBest = Len(Top.remaining) + Len(undone.placedWords)
             THEN Return(bestResult)
             ELSE /\ stack' = SetTop([Top EXCEPT !.at = "loop", !.k = @ + 1,
                                                 !.bestResult = bestResult,
                                                 !.localBest = localBest])
                  /\ UNCHANGED <<pc, ret>>
  /\ UNCHANGED <<entries, unitVars, mainVars, order, i, unplaced, expired, restartVars, localGrid,
                 localCount, firstIdx, dirIdx, beamVars>>

\* if (Date.now() <= deadline) { skipResult = backtrackDFS(...) ... }
DFSSkip ==
  /\ pc = "dfs"
  /\ Top.at = "skip"
  /\ \E late \in ClockReads :
       /\ expired' = late
       /\ IF late THEN Return(Top.bestResult)
          ELSE /\ stack' = Append(SetTop([Top EXCEPT !.at = "inSkip"]),
                                  Call(Top.newRemaining, Top.localBest))
               /\ UNCHANGED <<pc, ret>>
  /\ UNCHANGED <<entries, unitVars, mainVars, passVars, restartVars, localGrid, localCount, firstIdx,
                 dirIdx, beamVars>>

DFSAfterSkip ==
  /\ pc = "dfs"
  /\ Top.at = "inSkip"
  /\ IF ret # NoGrid /\ Len(ret.placedWords) > Top.localBest
       THEN Return(ret)
       ELSE Return(Top.bestResult)
  /\ UNCHANGED <<entries, unitVars, mainVars, passVars, expired, restartVars, localGrid, localCount,
                 firstIdx, dirIdx, beamVars>>

(***************************************************************************)
(* tryBeamSearch                                                           *)
(***************************************************************************)
BeamState(g, placed, score) == [grid |-> g, placed |-> placed, score |-> score]

\* The beam before the first step: every entry as first word, in both
\* directions.  placed holds indices into the entries (1-based here).
InitialBeam(es) ==
  LET gridSize == calculateGridSize(es)
  IN Concat([k \in DOMAIN es |->
       [d \in DOMAIN Directions |->
          BeamState(placeFirstWord(NewGrid(gridSize, gridSize), es[k], Directions[d],
                                   gridSize),
                    {k}, 20)]])

Unplaced(es, state) == {k \in DOMAIN es : k \notin state.placed}

\* The states one unplaced word adds to nextBeam: the word at each of its (at
\* most three) best valid options.
ChildrenOf(es, state, wordIdx) ==
  LET entry == es[wordIdx]
      valid == Filter(findAllPlacementOptions(state.grid, entry.answer),
                      LAMBDA opt : canPlaceWord(state.grid, entry.answer, opt))
      scored == AsSeq([k \in DOMAIN valid |->
                   WithScore(valid[k],
                             calculatePlacementScoreSimple(state.grid, entry.answer, valid[k]))])
      options == SortByScore(scored)
      topK == Min(BeamTopK, Len(options))
  IN [k \in 1..topK |->
        BeamState(addPlacedWord(clone(state.grid),
                                PlacedWord(entry.answer, entry.clue, options[k].row,
                                           options[k].col, options[k].direction, 0)),
                  state.placed \cup {wordIdx},
                  (Cardinality(state.placed) + 1) * 20000 + options[k].score)]

\* Mutant of Expand: a state also gets children for the words it has
\* already placed.
Expand_AnyWord(es, state) ==
  IF Unplaced(es, state) = {} THEN <<state>>
  ELSE Concat([k \in 1..Len(es) |-> ChildrenOf(es, state, k)])

\* What one state of the beam adds to nextBeam.
Expand(es, state) ==
  IF Unplaced(es, state) = {} THEN <<state>>
  ELSE Concat([k \in 1..Len(es) |->
         IF k \in state.placed THEN <<>> ELSE ChildrenOf(es, state, k)])

\* A loop "for (state of states) if (cond(state) && state.placed.size >
\* bestCount) { bestState = state; bestCount = state.placed.size }" ends with
\* the first state of the largest size among those that satisfy cond (hits:
\* their indices), if that size is above the bestCount it started with.
BestAfter(states, hits, state0, count0) ==
  LET top == IF hits = {} THEN 0
             ELSE MaxSeq([k \in DOMAIN states |->
                            IF k \in hits THEN Cardinality(states[k].placed) ELSE 0])
  IN IF hits # {} /\ top > count0
       THEN [state |-> states[CHOOSE k \in hits :
                                 /\ Cardinality(states[k].placed) = top
                                 /\ \A j \in hits :
                                      Cardinality(states[j].placed) = top => k <= j],
             count |-> top]
       ELSE [state |-> state0, count |-> count0]

BeamBegin ==
  /\ pc = "beam"
  /\ beam' = InitialBeam(normalized)
  /\ bestState' = NoState
  /\ localCount' = bestCount
  /\ step' = 0
  /\ pc' = "beamLoop"
  /\ UNCHANGED <<entries, unitVars, mainVars, passVars, expired, restartVars, localGrid, dfsVars>>

\* One iteration of the loop over step.
BeamStep ==
  /\ pc = "beamLoop"
  /\ IF step < Len(normalized) - 1
       THEN
         \* expanded: what each state of the beam adds to nextBeam
         \E expanded \in {AsSeq([k \in DOMAIN beam |-> Expand(normalized, beam[k])])} :
         LET \* the states that update bestState inside the loop over the beam:
             \* those with every word placed and those no word can be added to
             terminal == BestAfter(beam,
                           {k \in DOMAIN beam : \/ Unplaced(normalized, beam[k]) = {}
                                                \/ expanded[k] = <<>>},
                           bestState, localCount)
             nextBeam == Concat(expanded)
             pruned == Take(SortByScore(nextBeam), BeamWidth)
             perfect == {k \in DOMAIN pruned :
                           Cardinality(pruned[k].placed) = Len(normalized)}
         IN IF Len(nextBeam) = 0
              THEN /\ bestState' = terminal.state
                   /\ localCount' = terminal.count
                   /\ pc' = "beamEnd"
                   /\ UNCHANGED <<beam, step>>
              ELSE /\ beam' = pruned
                   /\ IF perfect # {}
                        THEN /\ bestState' = pruned[CHOOSE k \in perfect :
                                                      \A j \in perfect : k <= j]
                             /\ localCount' = Len(normalized)
                             /\ pc' = "beamEnd"
                             /\ step' = step
                        ELSE /\ bestState' = terminal.state
                             /\ localCount' = terminal.count
                             /\ IF terminal.count = Len(normalized)
                                  THEN pc' = "beamEnd" /\ step' = step
                                  ELSE pc' = pc /\ step' = step + 1
       ELSE /\ pc' = "beamEnd"
            /\ UNCHANGED <<beam, bestState, localCount, step>>
  /\ UNCHANGED <<entries, unitVars, mainVars, passVars, expired, restartVars, localGrid, dfsVars>>

\* The end of tryBeamSearch and the end of generateLayout's second phase.
BeamEnd ==
  /\ pc = "beamEnd"
  /\ LET last == BestAfter(beam, DOMAIN beam, bestState, localCount)
         res == IF last.state = NoState \/ last.count <= bestCount
                  THEN Threw("beam-search", ERR_BEAM)
                  ELSE PostProcess("beam-search", last.state.grid, last.count)
         after == Catch(res, "final")
     IN /\ updateBest(res)
        /\ pc' = after.pc
        /\ error' = after.error
  /\ DropLocals
  /\ UNCHANGED <<entries, unitVars, normalized, greedyIdx, returned>>

Next ==
  \/ Start
  \/ GreedyBegin
  \/ GreedyFirstPass
  \/ GreedySecondPass
  \/ GreedyEnd
  \/ RestartsBegin
  \/ RestartsLoop
  \/ RestartsFirstPass
  \/ RestartsSecondPass
  \/ RestartsEnd
  \/ BacktrackingBegin
  \/ BacktrackingLoop
  \/ BacktrackingResult
  \/ BacktrackingOuter
  \/ BacktrackingEnd
  \/ DFSEnter
  \/ DFSTry
  \/ DFSAfterTry
  \/ DFSSkip
  \/ DFSAfterSkip
  \/ BeamBegin
  \/ BeamStep
  \/ BeamEnd
  \/ Finish

Spec == Init /\ [][Next]_vars

(***************************************************************************)
(* services/CrosswordLayoutService.ts: createPuzzle                        *)
(***************************************************************************)
\* Mutant of clueList: the filtered words are left in placement order.
clueList_Unsorted(words, direction) == Filter(words, LAMBDA w : w.direction = direction)

\* placedWords.filter(w => w.direction === direction)
\*            .sort((a, b) => a.number - b.number)
clueList(words, direction) ==
  Sort(Filter(words, LAMBDA w : w.direction = direction),
       LAMBDA a, b : a.number - b.number < 0)

\* createPuzzle(title, entries) once generateLayout(entries) has returned g.
createPuzzle(title, g) ==
  [grid |-> g, title |-> title,
   acrossClues |-> clueList(g.placedWords, HORIZONTAL),
   downClues |-> clueList(g.placedWords, VERTICAL)]

Titles == {<<"T">>}

CreatePuzzle ==
  /\ pc = "done"
  /\ returned # NoGrid
  /\ \E title \in Titles : puzzle' = createPuzzle(title, returned)
  /\ pc' = "created"
  /\ UNCHANGED <<entries, mainVars, passVars, expired, restartVars, localGrid, localCount,
                 dfsVars, beamVars, heap, original, copy, call, calls, hash, deflated,
                 parsed>>

PuzzleNext == Next \/ CreatePuzzle

PuzzleSpec == Init /\ [][PuzzleNext]_vars

(***************************************************************************)
(* Properties of the grids generateLayout returns                          *)
(***************************************************************************)
\* generateLayout has returned a grid.
HasReturned == pc = "done" /\ returned # NoGrid

\* Two placed words cover a common cell.
Crossing(v, w) == Footprint(v) \cap Footprint(w) # {}

NoIsolatedWord(g) ==
  \A k \in DOMAIN g.placedWords :
    \E j \in DOMAIN g.placedWords : j # k /\ Crossing(g.placedWords[j], g.placedWords[k])

\* C1: in every grid generateLayout returns, every placed word shares at
\* least one cell with another placed word of that grid.
C1_NoIsolatedWords == HasReturned => NoIsolatedWord(returned)

\* A grid has been returned for an input that greedy could not fully place
\* and a later strategy did.
C1_Witness ==
  /\ HasReturned
  /\ Len(returned.placedWords) = MinPlaced
  /\ bestStrategy \notin Range(GreedyNames)
  /\ NoIsolatedWord(returned)

NoLetterConflict(g) ==
  \A j, k \in DOMAIN g.placedWords :
    \A p \in Footprint(g.placedWords[j]) \cap Footprint(g.placedWords[k]) :
      LetterAt(g.placedWords[j], p) = LetterAt(g.placedWords[k], p)

\* C2: in every grid generateLayout returns, two placed words that cover the
\* same cell put the same letter on it.
C2_SharedCellsAgree == HasReturned => NoLetterConflict(returned)

\* A returned grid in which two different words cover a common cell.
C2_Witness ==
  /\ HasReturned
  /\ \E j, k \in DOMAIN returned.placedWords :
        /\ returned.placedWords[j].word # returned.placedWords[k].word
        /\ \E p \in Footprint(returned.placedWords[j]) \cap Footprint(returned.placedWords[k]) :
              LetterAt(returned.placedWords[j], p) = LetterAt(returned.placedWords[k], p)

\* The words reachable from word 1 over crossings.
Component(g) ==
  LET n == Len(g.placedWords)
      RECURSIVE Grow(_, _)
      Grow(seen, fuel) ==
        IF fuel = 0 THEN seen
        ELSE Grow(seen \cup {k \in 1..n : \E j \in seen :
                                 Crossing(g.placedWords[j], g.placedWords[k])},
                  fuel - 1)
  IN IF n = 0 THEN {} ELSE Grow({1}, n)

Connected(g) == Component(g) = DOMAIN g.placedWords

\* C3: in every grid generateLayout returns, the graph whose nodes are the
\* placed words and whose edges join two words covering a common cell is
\* connected.
C3_SingleComponent == HasReturned => Connected(returned)

\* A returned grid of four words in which some pair of words does not cross
\* and is only connected through another word.
C3_Witness ==
  /\ HasReturned
  /\ Connected(returned)
  /\ Len(returned.placedWords) > MinPlaced
  /\ \E j, k \in DOMAIN returned.placedWords :
        j # k /\ ~Crossing(returned.placedWords[j], returned.placedWords[k])

(***************************************************************************)
(* The outcome of generateLayout                                           *)
(***************************************************************************)
\* The placed counts of the strategy calls that returned a result.
ReturnedCounts == {attempts[k].placedCount : k \in {j \in DOMAIN attempts : ~attempts[j].threw}}

\* The best placed count over all strategy calls (0 when none returned).
BestPlaced ==
  IF ReturnedCounts = {} THEN 0
  ELSE CHOOSE c \in ReturnedCounts : \A d \in ReturnedCounts : c >= d

\* C4: a grid is handed out only with at least 3 placed words; once the
\* strategies have run, a best placed count below 3 ends in the error 'Could
\* not place enough words to create a crossword' and no grid, and a best
\* placed count of 3 or more ends in a grid of that many words and no error,
\* whether or not every entry was placed.
C4_GridOnlyWithThreeWords ==
  /\ returned # NoGrid => Len(returned.placedWords) >= 3
  /\ pc = "done" /\ attempts # <<>> =>
        IF BestPlaced < 3
          THEN /\ error = "Could not place enough words to create a crossword"
               /\ returned = NoGrid
          ELSE /\ error = ""
               /\ returned # NoGrid
               /\ Len(returned.placedWords) = BestPlaced

\* A grid has been returned that leaves an entry out.
C4_Witness ==
  /\ HasReturned
  /\ error = ""
  /\ Len(returned.placedWords) >= 3
  /\ Len(returned.placedWords) < Len(entries)

Anchor(w) == <<w.row, w.col>>

Anchors(g) == {Anchor(g.placedWords[k]) : k \in DOMAIN g.placedWords}

Numbers(g) == {g.placedWords[k].number : k \in DOMAIN g.placedWords}

WellNumbered(g) ==
  /\ \A j, k \in DOMAIN g.placedWords :
        Anchor(g.placedWords[j]) = Anchor(g.placedWords[k])
          => g.placedWords[j].number = g.placedWords[k].number
  /\ Numbers(g) = 1..Cardinality(Anchors(g))

\* C5: in every grid generateLayout returns, words with the same anchor
\* coordinate have the same number, and the numbers used are exactly 1..k
\* for k the number of distinct anchor coordinates.
C5_NumbersFollowAnchors == HasReturned => WellNumbered(returned)

\* A returned grid in which two words start on the same cell, and so fewer
\* numbers than words are used.
C5_Witness ==
  /\ HasReturned
  /\ WellNumbered(returned)
  /\ \E j, k \in DOMAIN returned.placedWords :
        j # k /\ Anchor(returned.placedWords[j]) = Anchor(returned.placedWords[k])
  /\ Cardinality(Numbers(returned)) \in 2..(Len(returned.placedWords) - 1)

(***************************************************************************)
(* The grids of the strategies                                             *)
(***************************************************************************)
\* Every cell of every placed word reads back as the word's letter, and every
\* non-blank cell is covered by a placed word with that letter.
GridMatchesWords(g) ==
  /\ \A k \in DOMAIN g.placedWords : \A p \in Footprint(g.placedWords[k]) :
        getCell(g, p[1], p[2]) = LetterAt(g.placedWords[k], p)
  /\ \A p \in DOMAIN g.cells :
        \E k \in DOMAIN g.placedWords :
          p \in Footprint(g.placedWords[k]) /\ LetterAt(g.placedWords[k], p) = g.cells[p]

\* The grids that exist in a state: the grid a strategy is working on, the
\* copies it keeps, the grids of the beam, the best grid and the returned one.
LiveGrids ==
  {grid, localGrid, ret, bestGrid, returned, bestState.grid}
    \cup {beam[k].grid : k \in DOMAIN beam}
    \cup {stack[k].bestResult : k \in DOMAIN stack}

\* C6: in every grid a strategy reaches (after placeFirstWord, after each
\* accepted addPlacedWord, after each removeLastPlacedWord, after
\* optimizeGrid) every cell of every placed word's footprint reads back as
\* that word's letter, and every non-blank cell is covered by a placed word
\* whose letter there is the cell's content.
C6_GridMatchesWords == \A g \in LiveGrids : GridMatchesWords(g)

\* Every answer of the input normalizes to the empty string (this includes
\* the empty entry list).
NothingToPlace == \A k \in DOMAIN entries : normalizeWordEntry(entries[k]).answer = <<>>

\* C7: when the entry list is empty or every answer normalizes to the empty
\* string, generateLayout fails at once: no strategy is ever started.
C7_FailsBeforeStrategies ==
  NothingToPlace =>
    /\ pc \in {"start", "done"}
    /\ attempts = <<>>
    /\ pc = "done" => error # ""

(***************************************************************************)
(* Strategy failures and the choice of the best result                     *)
(***************************************************************************)
\* The names of the strategy calls in the order generateLayout makes them.
StrategyOrder ==
  GreedyNames \o <<"random-restarts", "backtracking", "beam-search">>

Position(name) == CHOOSE k \in DOMAIN StrategyOrder : StrategyOrder[k] = name

\* C8: an exception thrown inside a strategy stays inside generateLayout and
\* the strategy after it is still tried: the only errors generateLayout
\* raises are 'No words provided' and 'Could not place enough words to
\* create a crossword', and when it ends every strategy call that threw,
\* other than the last strategy (beam search), was followed by the call of
\* the next strategy.
C8_StrategyErrorsAbsorbed ==
  /\ error \in {"", "No words provided",
                "Could not place enough words to create a crossword"}
  /\ pc = "done" =>
        \A k \in DOMAIN attempts :
          attempts[k].threw /\ attempts[k].name # "beam-search" =>
            /\ k < Len(attempts)
            /\ Position(attempts[k + 1].name) = Position(attempts[k].name) + 1

\* generateLayout has returned a grid although a strategy threw, and the
\* grid comes from a strategy called after the one that threw.
C8_Witness ==
  /\ HasReturned
  /\ error = ""
  /\ \E k \in DOMAIN attempts :
        /\ attempts[k].threw
        /\ Position(bestStrategy) > Position(attempts[k].name)

\* C9: the returned grid has as many placed words as the best strategy call
\* that returned a result, and the best result is replaced only by one with
\* strictly more placed words: the best count never decreases and a tie
\* keeps the earlier grid and strategy.
C9_BestIsKept ==
  /\ [](HasReturned => Len(returned.placedWords) = BestPlaced)
  /\ [][/\ bestCount' >= bestCount
         /\ (bestGrid' # bestGrid \/ bestStrategy' # bestStrategy) => bestCount' > bestCount]_vars

\* A grid has been returned after a strategy tied with the best count and a
\* later one exceeded it.
C9_Witness ==
  /\ HasReturned
  /\ Len(returned.placedWords) = BestPlaced
  /\ \E j, k \in DOMAIN attempts :
        /\ j < k
        /\ ~attempts[j].threw /\ ~attempts[k].threw
        /\ attempts[j].placedCount = attempts[k].placedCount
        /\ attempts[k].placedCount < BestPlaced
        /\ attempts[k].placedCount > 0

(***************************************************************************)
(* normalizeWordEntry applied to its own result                            *)
(***************************************************************************)
\* The characters the raw answers are made of: letters in both cases, the
\* umlauts in both cases, the sharp s, the long s, a letter with an accent,
\* a digit, a blank and a punctuation mark.
RawChars ==
  {"a", "B", "uml_a", "uml_o", "uml_u", "UML_A", "UML_O", "UML_U", "eszett",
   "long_s", "e_acute", "1", " ", "!"}

RawStrings == UNION {[1..n -> RawChars] : n \in 0..MaxRawLen}

\* The clues of the entry: one of them holds characters that the answer
\* would lose.
RawClues == {Clues[1], "Wie hei\\ss ist es? (1 Wort)"}

\* One entry with a raw answer; normalized collects the results of the calls.
NormInit ==
  /\ entries \in {<<[clue |-> c, answer |-> a]>> : a \in RawStrings, c \in RawClues}
  /\ pc = "raw"
  /\ Fresh
  /\ NoObjects

\* normalizeWordEntry(entry)
NormalizeEntry ==
  /\ pc = "raw"
  /\ normalized' = <<normalizeWordEntry(entries[1])>>
  /\ pc' = "once"
  /\ UNCHANGED <<entries, unitVars, bestGrid, bestCount, bestStrategy, greedyIdx, error, returned,
                 attempts>>
  /\ UNCHANGED <<passVars, expired, restartVars, localGrid, localCount, dfsVars, beamVars>>

\* normalizeWordEntry(normalizeWordEntry(entry))
NormalizeAgain ==
  /\ pc = "once"
  /\ normalized' = Append(normalized, normalizeWordEntry(normalized[1]))
  /\ pc' = "twice"
  /\ UNCHANGED <<entries, unitVars, bestGrid, bestCount, bestStrategy, greedyIdx, error, returned,
                 attempts>>
  /\ UNCHANGED <<passVars, expired, restartVars, localGrid, localCount, dfsVars, beamVars>>

NormNext == NormalizeEntry \/ NormalizeAgain

NormSpec == NormInit /\ [][NormNext]_vars

\* C10: normalizing the result of normalizeWordEntry gives the same answer
\* as normalizing once.
C10_NormalizeIdempotent ==
  pc = "twice" => normalized[2].answer = normalized[1].answer

\* An answer with an umlaut and a character that is dropped has been
\* normalized twice: the first call changed it, the second did not.
C10_Witness ==
  /\ pc = "twice"
  /\ \E k \in DOMAIN entries[1].answer : entries[1].answer[k] \in {"uml_a", "UML_O", "eszett"}
  /\ \E k \in DOMAIN entries[1].answer : entries[1].answer[k] \in {"1", " "}
  /\ normalized[1].answer # entries[1].answer
  /\ normalized[2].answer = normalized[1].answer

\* What the answer keeps of one character: a letter a-z or A-Z (or the long
\* s, a letter whose upper case is S) in upper case, AE OE UE for an umlaut
\* of either case, SS for the sharp s, nothing for any other character.
Plain(c) ==
  IF c \in Range(UpperAZ) THEN <<c>>
  ELSE IF c \in Range(LowerAZ) THEN <<UpperAZ[CHOOSE k \in DOMAIN LowerAZ : LowerAZ[k] = c]>>
  ELSE IF c \in {"uml_a", "UML_A"} THEN <<"A", "E">>
  ELSE IF c \in {"uml_o", "UML_O"} THEN <<"O", "E">>
  ELSE IF c \in {"uml_u", "UML_U"} THEN <<"U", "E">>
  ELSE IF c = "eszett" THEN <<"S", "S">>
  ELSE IF c = "long_s" THEN <<"S">>
  ELSE <<>>

\* C11: normalizeWordEntry returns an answer made of the letters A-Z only:
\* character by character and in the order of the input, a letter is
\* upper-cased, an umlaut of either case becomes AE, OE or UE, the sharp s
\* becomes SS and every other character is dropped; the clue is returned
\* unchanged.
C11_NormalizedAnswer ==
  pc \in {"once", "twice"} =>
    /\ \A k \in DOMAIN normalized[1].answer : normalized[1].answer[k] \in Range(UpperAZ)
    /\ normalized[1].answer = Concat([k \in DOMAIN entries[1].answer |->
                                        Plain(entries[1].answer[k])])
    /\ normalized[1].clue = entries[1].clue

\* An answer with a lower-case umlaut, a sharp s and a digit has been
\* normalized to UESS, with a clue that normalization would have changed.
C11_Witness ==
  /\ pc = "once"
  /\ entries[1].answer = <<"uml_u", "1", "eszett">>
  /\ normalized[1].answer = <<"U", "E", "S", "S">>
  /\ entries[1].clue # Clues[1]
  /\ normalized[1].clue = entries[1].clue

(***************************************************************************)
(* optimizeGrid on the grids the strategies hand to it                     *)
(***************************************************************************)
\* The grids optimizeGrid is about to be called on: the grid of tryGreedy,
\* the best grid of tryRandomRestarts and tryBacktracking, the grid of the
\* best state of tryBeamSearch.
BeforeCrop ==
  IF pc = "greedyEnd" THEN {grid}
  ELSE IF pc \in {"restartsEnd", "backtrackingEnd"} THEN {localGrid} \ {NoGrid}
  ELSE IF pc = "beamEnd"
    THEN LET last == BestAfter(beam, DOMAIN beam, bestState, localCount)
         IN IF last.state = NoState \/ last.count <= bestCount THEN {}
            ELSE {last.state.grid}
  ELSE {}

Covered(g) == UNION {Footprint(g.placedWords[k]) : k \in DOMAIN g.placedWords}

\* The bounding box of the footprints, one cell wider on each side, clamped
\* to the grid.
MarginBox(g) ==
  LET rows == {p[1] : p \in Covered(g)}
      cols == {p[2] : p \in Covered(g)}
      least(S) == CHOOSE x \in S : \A y \in S : x <= y
      most(S) == CHOOSE x \in S : \A y \in S : x >= y
  IN [minRow |-> Max(0, least(rows) - 1), maxRow |-> Min(g.height - 1, most(rows) + 1),
      minCol |-> Max(0, least(cols) - 1), maxCol |-> Min(g.width - 1, most(cols) + 1)]

\* h is g cropped to its margin box.
CroppedTo(g, h) ==
  LET box == MarginBox(g)
  IN /\ h.height = box.maxRow - box.minRow + 1
     /\ h.width = box.maxCol - box.minCol + 1
     /\ Len(h.placedWords) = Len(g.placedWords)
     /\ \A k \in DOMAIN g.placedWords :
          h.placedWords[k] = [g.placedWords[k] EXCEPT !.row = @ - box.minRow,
                                                       !.col = @ - box.minCol]
     /\ \A k \in DOMAIN h.placedWords : \A p \in Footprint(h.placedWords[k]) :
          getCell(h, p[1], p[2]) = LetterAt(h.placedWords[k], p)
     /\ DOMAIN h.cells \subseteq Covered(h)

\* C12: optimizeGrid, on a grid with a placed word, leaves exactly the
\* bounding box of the footprints widened by one cell and clamped to the
\* grid: width and height are the box's, every anchor is shifted by the
\* box's corner, every letter of every word sits on its shifted footprint
\* and every other cell is empty.
C12_CroppedToMarginBox ==
  \A g \in BeforeCrop :
    Covered(g) # {} /\ ~OptimizeThrows(g) => CroppedTo(g, optimizeGrid(g))

(***************************************************************************)
(* removeLastPlacedWord                                                    *)
(***************************************************************************)
\* h is g without its last placed word: the word list lost its last element,
\* the cells of that word no remaining word covers are empty, every other
\* cell is as it was.
LastRemoved(g, h) ==
  LET word == g.placedWords[Len(g.placedWords)]
  IN /\ h.placedWords = SubSeq(g.placedWords, 1, Len(g.placedWords) - 1)
     /\ h.width = g.width /\ h.height = g.height
     /\ \A p \in (DOMAIN g.cells) \cup (DOMAIN h.cells) \cup Footprint(word) :
          getCell(h, p[1], p[2]) =
            IF p \in Footprint(word) \ Covered(h) THEN " " ELSE getCell(g, p[1], p[2])

\* The words canPlaceWord accepts on g, for the answers of the input.
Placeable(g) ==
  UNION {{PlacedWord(normalized[k].answer, normalized[k].clue, opt.row, opt.col,
                     opt.direction, 0) :
            opt \in {o \in Range(findAllPlacementOptions(g, normalized[k].answer)) :
                       canPlaceWord(g, normalized[k].answer, o)}} :
         k \in DOMAIN normalized}

\* C13: removeLastPlacedWord takes the most recently added word off the word
\* list and clears exactly the cells of its footprint that no remaining word
\* covers; hence adding a word canPlaceWord accepts and removing it again
\* gives back the cells and the word list.
C13_RemoveUndoesAdd ==
  \A g \in LiveGrids :
    /\ g.placedWords # <<>> => LastRemoved(g, removeLastPlacedWord(g))
    /\ \A w \in Placeable(g) :
         LET back == removeLastPlacedWord(addPlacedWord(g, w))
         IN back.cells = g.cells /\ back.placedWords = g.placedWords

\* backtrackDFS has placed an option and taken it off again; the word shared
\* a cell with the words that stay and had cells of its own.
C13_Witness ==
  /\ pc = "dfs" /\ stack # <<>>
  /\ Top.at = "loop" /\ Top.k >= 1
  /\ LET option == Top.options[Top.k]
         w == PlacedWord(Top.chosen.answer, Top.chosen.clue, option.row, option.col,
                         option.direction, 0)
     IN /\ Footprint(w) \cap DOMAIN grid.cells # {}
        /\ Footprint(w) \ DOMAIN grid.cells # {}
        /\ w \in Placeable(grid)

(***************************************************************************)
(* models/CrosswordGrid.ts on objects                                      *)
(*                                                                         *)
(* A grid is an object that refers to its row arrays and to its placed     *)
(* words; a method changes the objects it writes to, and two grids that    *)
(* refer to a common row or word see each other's writes.  heap is the     *)
(* sequence of the objects; the id of an object is its position.  The      *)
(* array of the rows and the array of the placed words are fields of the   *)
(* grid object: the constructor, map and slice make new ones.              *)
(***************************************************************************)
GridSide == 4

MaxCalls == 3

RowObject(items) == [kind |-> "row", items |-> items]

WordObject(w) == [kind |-> "word", value |-> w]

GridObject(rows, width, height, placedWords) ==
  [kind |-> "grid", grid |-> rows, width |-> width, height |-> height,
   placedWords |-> placedWords]

\* Array(n) raises a RangeError for a negative n; Array(width) runs once for
\* every row, so not at all when there is no row.
ConstructorThrows(width, height) == height < 0 \/ (height > 0 /\ width < 0)

\* new CrosswordGrid(width, height): the new grid is the last object.
NewGridIn(hp, width, height) ==
  LET rows == [r \in 1..height |-> RowObject([c \in 1..width |-> " "])]
  IN (hp \o rows) \o <<GridObject([r \in 1..height |-> Len(hp) + r], width, height, <<>>)>>

\* getCell(row, col): this.grid[row][col] raises a TypeError when this.grid
\* has no row `row`, and is undefined when the row has no column `col`.
getCellIn(hp, id, row, col) ==
  LET o == hp[id]
  IN IF ~isInBounds(o, row, col) THEN " "
     ELSE IF row + 1 \notin DOMAIN o.grid THEN "TypeError"
     ELSE IF col + 1 \notin DOMAIN hp[o.grid[row + 1]].items THEN "undefined"
     ELSE hp[o.grid[row + 1]].items[col + 1]

\* What the methods of grid `id` read: its dimensions, its cells, the fields
\* of its placed words.
ViewOf(hp, id) ==
  LET o == hp[id]
      at(p) == hp[o.grid[p[1] + 1]].items[p[2] + 1]
      filled == {p \in (0..(o.height - 1)) \X (0..(o.width - 1)) : at(p) # " "}
  IN [width |-> o.width, height |-> o.height,
      cells |-> AsCells([p \in filled |-> at(p)]),
      placedWords |-> AsSeq([k \in DOMAIN o.placedWords |-> hp[o.placedWords[k]].value])]

\* this.grid[row][col] = value for every in-bounds coordinate of `writes`.
WriteIn(hp, id, writes) ==
  LET o == hp[id]
      RowOf(x) == CHOOSE r \in DOMAIN o.grid : o.grid[r] = x
  IN AsSeq([x \in DOMAIN hp |->
       IF x \in Range(o.grid)
         THEN RowObject([c \in DOMAIN hp[x].items |->
                IF <<RowOf(x) - 1, c - 1>> \in DOMAIN writes
                     /\ isInBounds(o, RowOf(x) - 1, c - 1)
                  THEN writes[<<RowOf(x) - 1, c - 1>>]
                  ELSE hp[x].items[c]])
         ELSE hp[x]])

setCellIn(hp, id, row, col, value) == WriteIn(hp, id, [p \in {<<row, col>>} |-> value])

\* addPlacedWord(word) with a new object for word, as every caller passes.
addPlacedWordIn(hp, id, w) ==
  LET pushed == [Append(hp, WordObject(w)) EXCEPT ![id].placedWords = Append(@, Len(hp) + 1)]
  IN WriteIn(pushed, id, [p \in Footprint(w) |-> LetterAt(w, p)])

removeLastPlacedWordIn(hp, id) ==
  LET ids == hp[id].placedWords
  IN IF ids = <<>> THEN hp
     ELSE LET word == hp[ids[Len(ids)]].value
              rest == SubSeq(ids, 1, Len(ids) - 1)
              usedCells == UNION {Footprint(hp[rest[k]].value) : k \in DOMAIN rest}
              popped == [hp EXCEPT ![id].placedWords = rest]
          IN WriteIn(popped, id, [p \in Footprint(word) \ usedCells |-> " "])

\* The fields of the placed words of grid `id` overwritten with `values`.
WordsIn(hp, id, values) ==
  LET ids == hp[id].placedWords
  IN AsSeq([x \in DOMAIN hp |->
       IF x \in Range(ids) THEN WordObject(values[CHOOSE k \in DOMAIN ids : ids[k] = x])
       ELSE hp[x]])

\* optimizeGrid(grid): the words are shifted in place, the rows are new.
optimizeGridIn(hp, id) ==
  IF hp[id].placedWords = <<>> THEN hp
  ELSE LET cropped == optimizeGrid(ViewOf(hp, id))
           rows == [r \in 1..cropped.height |->
                      RowObject([c \in 1..cropped.width |-> getCell(cropped, r - 1, c - 1)])]
           shifted == WordsIn(hp, id, cropped.placedWords)
       IN [shifted \o rows EXCEPT ![id].grid = [r \in 1..cropped.height |-> Len(hp) + r],
                                   ![id].width = cropped.width,
                                   ![id].height = cropped.height]

\* assignNumbers(grid): the numbers are written to the words in place.
assignNumbersIn(hp, id) == WordsIn(hp, id, assignNumbers(ViewOf(hp, id)).placedWords)

\* Mutant of clone(): placedWords.slice(), the copy refers to the words of
\* the original.
cloneIn_SharedWords(hp, id) ==
  LET o == hp[id]
      rows == [r \in DOMAIN o.grid |-> RowObject(hp[o.grid[r]].items)]
  IN (hp \o rows) \o
       <<GridObject([r \in DOMAIN o.grid |-> Len(hp) + r], o.width, o.height, o.placedWords)>>

\* clone(): the new grid is the last object.  [...row] is a new row with the
\* same letters, { ...w } a new word with the same fields (all of them are
\* strings and numbers).
cloneIn(hp, id) ==
  LET o == hp[id]
      rows == [r \in DOMAIN o.grid |-> RowObject(hp[o.grid[r]].items)]
      words == [k \in DOMAIN o.placedWords |-> WordObject(hp[o.placedWords[k]].value)]
  IN ((hp \o rows) \o words) \o
       <<GridObject([r \in DOMAIN o.grid |-> Len(hp) + r], o.width, o.height,
                    [k \in DOMAIN o.placedWords |-> Len(hp) + Len(rows) + k])>>

(***************************************************************************)
(* Runs of the grid's methods                                              *)
(***************************************************************************)
\* The words the runs add: two that cross and one beside them, away from the
\* grid's first row and column.
WordsToAdd ==
  {PlacedWord(<<"A", "B">>, Clues[1], 2, 1, HORIZONTAL, 0),
   PlacedWord(<<"A", "C">>, Clues[2], 2, 1, VERTICAL, 0),
   PlacedWord(<<"B", "D">>, Clues[3], 2, 2, VERTICAL, 0)}

\* The coordinates the runs pass to setCell: two cells of a grid of
\* GridSide x GridSide and one coordinate beyond each of its edges.
CellsToSet == {<<0, 0>>, <<2, 2>>, <<-1, 0>>, <<0, -1>>, <<GridSide, 0>>, <<0, GridSide>>}

\* What a step on the objects leaves alone.
OnObjects ==
  UNCHANGED <<entries, mainVars, passVars, expired, restartVars, localGrid, localCount,
              dfsVars, beamVars, puzzle, hash, deflated, parsed>>

\* A method of the original or of the copy is called; hp is the heap it
\* leaves.
CallOn(id, method, args, result, threw, hp) ==
  /\ calls < MaxCalls
  /\ calls' = calls + 1
  /\ heap' = hp
  /\ call' = [method |-> method, receiver |-> id, args |-> args, result |-> result,
              threw |-> threw]
  /\ UNCHANGED <<pc, original, copy>>
  /\ OnObjects

\* The grids that exist.
Grids == {original, copy} \ {0}

SetCell == \E id \in Grids : \E p \in CellsToSet :
  CallOn(id, "setCell", <<p[1], p[2], "X">>, "", "", setCellIn(heap, id, p[1], p[2], "X"))

AddPlacedWord == \E id \in Grids : \E w \in WordsToAdd :
  /\ Len(heap[id].placedWords) < 2
  /\ CallOn(id, "addPlacedWord", <<w>>, "", "", addPlacedWordIn(heap, id, w))

RemoveLastPlacedWord == \E id \in Grids :
  CallOn(id, "removeLastPlacedWord", <<>>, "", "", removeLastPlacedWordIn(heap, id))

OptimizeGrid == \E id \in Grids :
  /\ ~OptimizeThrows(ViewOf(heap, id))
  /\ CallOn(id, "optimizeGrid", <<>>, "", "", optimizeGridIn(heap, id))

AssignNumbers == \E id \in Grids :
  CallOn(id, "assignNumbers", <<>>, "", "", assignNumbersIn(heap, id))

(***************************************************************************)
(* clone() of a grid with up to two words, and methods called on both      *)
(***************************************************************************)
\* A grid of GridSide x GridSide with the words ws added.
RECURSIVE Built(_)
Built(ws) ==
  IF ws = <<>> THEN NewGridIn(<<>>, GridSide, GridSide)
  ELSE LET hp == Built(SubSeq(ws, 1, Len(ws) - 1))
       IN addPlacedWordIn(hp, GridSide + 1, ws[Len(ws)])

CloneInit ==
  /\ pc = "built"
  /\ entries = <<>>
  /\ Fresh
  /\ heap \in {Built(ws) : ws \in {<<>>} \cup {<<w>> : w \in WordsToAdd}
                                \cup {<<v, w>> : v, w \in WordsToAdd}}
  /\ original = GridSide + 1
  /\ copy = 0
  /\ call = NoCall
  /\ calls = 0
  /\ NoPuzzles

Clone ==
  /\ pc = "built"
  /\ heap' = cloneIn(heap, original)
  /\ copy' = Len(heap')
  /\ call' = [method |-> "clone", receiver |-> original, args |-> <<>>, result |-> "",
              threw |-> ""]
  /\ pc' = "cloned"
  /\ UNCHANGED <<original, calls>>
  /\ OnObjects

CloneNext ==
  \/ Clone
  \/ pc = "cloned" /\ SetCell
  \/ pc = "cloned" /\ AddPlacedWord
  \/ pc = "cloned" /\ RemoveLastPlacedWord
  \/ pc = "cloned" /\ OptimizeGrid
  \/ pc = "cloned" /\ AssignNumbers

CloneSpec == CloneInit /\ [][CloneNext]_vars

\* C14: clone() returns a deep copy: a method called on the copy (setCell,
\* addPlacedWord, removeLastPlacedWord, the anchor shifts of optimizeGrid,
\* the numbering of assignNumbers) changes neither the cells nor the
\* dimensions nor the word list nor any field of a placed word of the
\* original, and a method called on the original changes none of the copy's.
C14_CloneIsDeep ==
  [][pc = "cloned" =>
       \A id \in {original, copy} \ {call'.receiver} :
          ViewOf(heap', id) = ViewOf(heap, id)]_vars

\* The copy has been cropped and numbered while the original kept its
\* anchors and numbers, and both still hold the same words.
C14_Witness ==
  /\ pc = "cloned"
  /\ call.receiver = copy
  /\ LET o == ViewOf(heap, original)
         c == ViewOf(heap, copy)
     IN /\ Len(o.placedWords) = 2 /\ Len(c.placedWords) = 2
        /\ \A k \in 1..2 : /\ o.placedWords[k].word = c.placedWords[k].word
                            /\ o.placedWords[k].row = 2
                            /\ c.placedWords[k].row = 1
                            /\ o.placedWords[k].number = 0
                            /\ c.placedWords[k].number > 0
        /\ c.height < o.height

(***************************************************************************)
(* new CrosswordGrid(width, height), and getCell, isEmpty, setCell on it   *)
(***************************************************************************)
\* The widths and heights passed to the constructor.
Dims == {-1, 0, 2, GridSide}

\* The coordinates passed to getCell and isEmpty.
Coords == (-1..GridSide) \X (-1..GridSide)

GridInit ==
  /\ pc = "none"
  /\ entries = <<>>
  /\ Fresh
  /\ NoObjects

Construct ==
  /\ pc = "none"
  /\ \E width, height \in Dims :
       IF ConstructorThrows(width, height)
         THEN /\ pc' = "threw"
              /\ call' = [method |-> "constructor", receiver |-> 0,
                          args |-> <<width, height>>, result |-> "",
                          threw |-> "RangeError"]
              /\ UNCHANGED <<heap, original>>
         ELSE /\ pc' = "built"
              /\ heap' = NewGridIn(heap, width, height)
              /\ original' = Len(heap')
              /\ call' = [method |-> "constructor", receiver |-> 0,
                          args |-> <<width, height>>, result |-> "", threw |-> ""]
  /\ UNCHANGED <<copy, calls>>
  /\ OnObjects

GetCell == \E id \in Grids : \E p \in Coords :
  LET cell == getCellIn(heap, id, p[1], p[2])
  IN IF cell = "TypeError" THEN CallOn(id, "getCell", <<p[1], p[2]>>, "", cell, heap)
     ELSE CallOn(id, "getCell", <<p[1], p[2]>>, cell, "", heap)

\* isEmpty(row, col): this.getCell(row, col) === ' '
IsEmpty == \E id \in Grids : \E p \in Coords :
  LET cell == getCellIn(heap, id, p[1], p[2])
  IN IF cell = "TypeError" THEN CallOn(id, "isEmpty", <<p[1], p[2]>>, FALSE, cell, heap)
     ELSE CallOn(id, "isEmpty", <<p[1], p[2]>>, cell = " ", "", heap)

GridNext ==
  \/ Construct
  \/ GetCell
  \/ IsEmpty
  \/ SetCell

GridSpec == GridInit /\ [][GridNext]_vars

\* The coordinate of the last call lies outside the receiver's rows and
\* columns.
Outside(c) ==
  \/ c.args[1] < 0 \/ c.args[1] >= heap[c.receiver].height
  \/ c.args[2] < 0 \/ c.args[2] >= heap[c.receiver].width

\* C15: getCell never throws, and returns the empty marker ' ' for every
\* coordinate outside the grid; isEmpty is true there; setCell on such a
\* coordinate changes no cell.
C15_OutsideIsEmpty ==
  /\ [](call.method = "getCell" =>
          /\ call.threw = ""
          /\ Outside(call) => call.result = " ")
  /\ [](call.method = "isEmpty" /\ Outside(call) => call.threw = "" /\ call.result)
  /\ [][call'.method = "setCell" /\ Outside(call') =>
          \A x \in DOMAIN heap : heap[x].kind = "row" => heap'[x] = heap[x]]_vars

\* A cell of the grid holds a letter, and getCell has just been asked for a
\* coordinate beyond the grid's last column.
C15_Witness ==
  /\ call.method = "getCell"
  /\ call.args[2] = heap[call.receiver].width
  /\ call.result = " "
  /\ \E x \in DOMAIN heap : heap[x].kind = "row" /\ "X" \in Range(heap[x].items)

\* C16: new CrosswordGrid(width, height) fails when width or height is not
\* positive; otherwise the grid has that width and height, every cell is
\* empty and the word list is empty.
C16_NonPositiveSizeFails ==
  call.method = "constructor" =>
    IF call.args[1] <= 0 \/ call.args[2] <= 0
      THEN call.threw # ""
      ELSE /\ call.threw = ""
           /\ ViewOf(heap, original) =
                [width |-> call.args[1], height |-> call.args[2], cells |-> NoCells,
                 placedWords |-> <<>>]

(***************************************************************************)
(* The clue lists of createPuzzle                                          *)
(***************************************************************************)
\* How often w occurs in the sequence s.
Occurrences(w, s) == Cardinality({k \in DOMAIN s : s[k] = w})

Ascending(s) == \A j, k \in DOMAIN s : j < k => s[j].number <= s[k].number

\* C17: createPuzzle splits the placed words by direction: acrossClues holds
\* exactly the HORIZONTAL words and downClues exactly the VERTICAL ones,
\* each list in ascending order of number, and every placed word is in the
\* two lists together exactly once.
C17_CluesPartitionWords ==
  pc = "created" =>
    LET words == puzzle.grid.placedWords
    IN /\ \A k \in DOMAIN puzzle.acrossClues : puzzle.acrossClues[k].direction = HORIZONTAL
       /\ \A k \in DOMAIN puzzle.downClues : puzzle.downClues[k].direction = VERTICAL
       /\ Ascending(puzzle.acrossClues)
       /\ Ascending(puzzle.downClues)
       /\ Len(puzzle.acrossClues) + Len(puzzle.downClues) = Len(words)
       /\ \A k \in DOMAIN words :
            Occurrences(words[k], puzzle.acrossClues \o puzzle.downClues)
              = Occurrences(words[k], words)

\* A puzzle whose across words were placed in another order than the order
\* of their numbers.
C17_Witness ==
  /\ pc = "created"
  /\ Len(puzzle.acrossClues) >= 2
  /\ Len(puzzle.downClues) >= 1
  /\ puzzle.acrossClues # clueList_Unsorted(puzzle.grid.placedWords, HORIZONTAL)

(***************************************************************************)
(* services/PuzzleSerializer.ts                                            *)
(*                                                                         *)
(* A string is the sequence of its characters.  The title and the clues    *)
(* come from single-line text inputs and hold no line break.               *)
(***************************************************************************)
MaxBytes == 3

Digits == <<"0", "1", "2", "3", "4", "5", "6", "7", "8", "9">>

\* The characters of base 64, by value.
Base64Chars == ((UpperAZ \o LowerAZ) \o Digits) \o <<"+", "/">>

\* str.replace(/from/g, to) for one character
ReplaceChar(str, from, to) == [k \in DOMAIN str |-> IF str[k] = from THEN to ELSE str[k]]

\* btoa(binary): three bytes give four characters; a last group of one or
\* two bytes is filled up with '='.
btoa(bytes) ==
  LET n == Len(bytes)
      Byte(k) == IF k <= n THEN bytes[k] ELSE 0
      Group(g) ==
        LET a == Byte(3 * g - 2)
            b == Byte(3 * g - 1)
            c == Byte(3 * g)
        IN <<Base64Chars[(a \div 4) + 1],
             Base64Chars[(a % 4) * 16 + (b \div 16) + 1],
             IF 3 * g - 1 <= n THEN Base64Chars[(b % 16) * 4 + (c \div 64) + 1] ELSE "=",
             IF 3 * g <= n THEN Base64Chars[(c % 64) + 1] ELSE "=">>
  IN Concat([g \in 1..((n + 2) \div 3) |-> Group(g)])

\* str.replace(/=+$/, '')
StripPadding(str) ==
  LET keep == {k \in DOMAIN str : \E j \in k..Len(str) : str[j] # "="}
  IN SubSeq(str, 1, Cardinality(keep))

base64UrlEncode(bytes) ==
  StripPadding(ReplaceChar(ReplaceChar(btoa(bytes), "+", "-"), "/", "_"))

\* What atob gives when it raises an InvalidCharacterError: no byte is
\* negative.
InvalidCharacterError == <<-1>>

\* atob(b64): up to two '=' at the end of a string of a multiple of four
\* characters are dropped; what is left must be characters of base 64 and
\* not one more than a multiple of four; every four characters give three
\* bytes, the bits left over are dropped.
atob(b64) ==
  LET n == Len(b64)
      pad == IF n % 4 # 0 \/ n = 0 THEN 0
             ELSE IF b64[n] = "=" /\ b64[n - 1] = "=" THEN 2
             ELSE IF b64[n] = "=" THEN 1 ELSE 0
      data == SubSeq(b64, 1, n - pad)
      Value(k) == IF k <= Len(data)
                    THEN (CHOOSE v \in DOMAIN Base64Chars : Base64Chars[v] = data[k]) - 1
                    ELSE 0
      ByteAt(j) ==
        LET g == 4 * ((j - 1) \div 3)
        IN CASE (j - 1) % 3 = 0 -> Value(g + 1) * 4 + (Value(g + 2) \div 16)
             [] (j - 1) % 3 = 1 -> (Value(g + 2) % 16) * 16 + (Value(g + 3) \div 4)
             [] (j - 1) % 3 = 2 -> (Value(g + 3) % 4) * 64 + Value(g + 4)
  IN IF Len(data) % 4 = 1 \/ \E k \in DOMAIN data : data[k] \notin Range(Base64Chars)
       THEN InvalidCharacterError
       ELSE AsSeq([j \in 1..((Len(data) * 6) \div 8) |-> ByteAt(j)])

base64UrlDecode(str) ==
  LET b64 == ReplaceChar(ReplaceChar(str, "-", "+"), "_", "/")
      padded == b64 \o [k \in 1..((4 - (Len(b64) % 4)) % 4) |-> "="]
  IN atob(padded)

\* `${n}` for an integer n
RECURSIVE ToDecimal(_)
ToDecimal(n) ==
  IF n < 0 THEN <<"-">> \o ToDecimal(-n)
  ELSE IF n < 10 THEN <<Digits[n + 1]>>
  ELSE ToDecimal(n \div 10) \o <<Digits[(n % 10) + 1]>>

\* parseInt of a string without a digit at its start: no integer is NaN.
NaN == -1000000

\* parseInt(str, 10): an optional sign and the digits that follow it; what
\* comes after them is ignored.  A missing string (undefined) has no digit.
parseInt(str) ==
  LET signed == str # <<>> /\ str[1] \in {"-", "+"}
      body == IF signed THEN Tail(str) ELSE str
      count == Cardinality({k \in DOMAIN body :
                              \A j \in 1..k : body[j] \in Range(Digits)})
      DigitValue(c) == (CHOOSE v \in DOMAIN Digits : Digits[v] = c) - 1
      RECURSIVE Value(_)
      Value(k) == IF k = 0 THEN 0 ELSE Value(k - 1) * 10 + DigitValue(body[k])
  IN IF count = 0 THEN NaN
     ELSE IF signed /\ str[1] = "-" THEN -Value(count)
     ELSE Value(count)

\* parts.join(sep)
Join(parts, sep) ==
  Concat([k \in DOMAIN parts |-> IF k = 1 THEN parts[k] ELSE <<sep>> \o parts[k]])

\* str.split(sep) for one character: the pieces between the separators, one
\* more than there are separators.
Split(str, sep) ==
  LET at == {k \in DOMAIN str : str[k] = sep}
      n == Cardinality(at)
      Pos(j) == IF j = 0 THEN 0
                ELSE IF j = n + 1 THEN Len(str) + 1
                ELSE CHOOSE k \in at : Cardinality({m \in at : m < k}) = j - 1
  IN AsSeq([j \in 1..(n + 1) |-> SubSeq(str, Pos(j - 1) + 1, Pos(j) - 1)])

toCompactFormat(p) ==
  LET g == p.grid
      rows == [row \in 1..g.height |->
                 [col \in 1..g.width |->
                    IF getCell(g, row - 1, col - 1) = " " THEN "."
                    ELSE getCell(g, row - 1, col - 1)]]
      words == [k \in DOMAIN g.placedWords |->
                  LET word == g.placedWords[k]
                  IN Join(<<ToDecimal(word.number),
                            IF word.direction = HORIZONTAL THEN <<"H">> ELSE <<"V">>,
                            ToDecimal(word.row), ToDecimal(word.col), word.word,
                            word.clue>>, "|")]
      lines == ((<<<<"v", "1">>, p.title,
                   (ToDecimal(g.width) \o <<",">>) \o ToDecimal(g.height)>> \o rows)
                  \o << <<>> >>) \o words
  IN Join(lines, "\n")

\* What fromCompactFormat and deserialize give when they raise an error.
Failed(name) ==
  [threw |-> name, title |-> <<>>, grid |-> NoGrid, acrossClues |-> <<>>,
   downClues |-> <<>>]

\* An element of an array that has none at that index.
Undefined == <<"undefined">>

\* Mutant of clueOf: the clue is the sixth part alone.
clueOf_SixthPart(parts) == IF Len(parts) >= 6 THEN parts[6] ELSE Undefined

\* parts.slice(5).join('|')
clueOf(parts) == Join(SubSeq(parts, 6, Len(parts)), "|")

\* One line of the word list: number|direction|row|col|word|clue
wordOf(line) ==
  LET parts == Split(line, "|")
      Part(k) == IF k <= Len(parts) THEN parts[k] ELSE Undefined
  IN PlacedWord(Part(5), clueOf(parts), parseInt(Part(3)), parseInt(Part(4)),
                IF Part(2) = <<"H">> THEN HORIZONTAL ELSE VERTICAL, parseInt(Part(1)))

fromCompactFormat(text) ==
  LET lines == Split(text, "\n")
  IN IF lines[1] # <<"v", "1">> THEN Failed("Error")
     ELSE IF Len(lines) < 3 THEN Failed("TypeError")
     ELSE
       LET dims == Split(lines[3], ",")
           width == parseInt(dims[1])
           height == parseInt(IF Len(dims) >= 2 THEN dims[2] ELSE Undefined)
       IN IF width = NaN \/ height = NaN \/ ConstructorThrows(width, height)
            THEN Failed("RangeError")
          ELSE IF width > 0 /\ Len(lines) < 3 + height THEN Failed("TypeError")
          ELSE
            LET Char(row, col) ==
                  IF col <= Len(lines[3 + row]) THEN lines[3 + row][col] ELSE "undefined"
                filled == {q \in (1..height) \X (1..width) : Char(q[1], q[2]) # "."}
                cells == [q \in {<<r[1] - 1, r[2] - 1>> : r \in filled} |->
                            Char(q[1] + 1, q[2] + 1)]
                wordLines == SelectSeq(SubSeq(lines, 3 + height + 2, Len(lines)),
                                       LAMBDA line : line # <<>>)
                placedWords == AsSeq([k \in DOMAIN wordLines |-> wordOf(wordLines[k])])
            IN [threw |-> "", title |-> lines[2],
                grid |-> [width |-> width, height |-> height, cells |-> AsCells(cells),
                          placedWords |-> placedWords],
                acrossClues |-> clueList(placedWords, HORIZONTAL),
                downClues |-> clueList(placedWords, VERTICAL)]

\* The bytes pako's deflate may return: any, as far as this module knows;
\* among them bytes whose base 64 has '+', '/' and padding.
ByteStrings == UNION {[1..n -> {0, 65, 251, 255}] : n \in 0..MaxBytes}

\* The puzzles to serialize: grids with and without words, with a word that
\* starts left of the grid, with numbers of two digits; titles and clues
\* with the characters the format uses itself.
SampleTitles == {<<"T">>, <<>>, <<"v", "1">>, <<"1", ",", "|", ".">>}

SampleClues == {<<"Q", "1">>, <<"a", "|", "b">>, <<"|", "|">>, <<>>}

SampleWords ==
  {<<>>,
   <<PlacedWord(<<"A", "B">>, <<>>, 0, 0, HORIZONTAL, 1),
     PlacedWord(<<"A", "C">>, <<>>, 0, 0, VERTICAL, 1)>>,
   <<PlacedWord(<<"A", "B", "C">>, <<>>, 1, -1, HORIZONTAL, 0),
     PlacedWord(<<"C", "B">>, <<>>, 0, 0, VERTICAL, 12)>>,
   <<PlacedWord(<<"E">>, <<>>, 0, 10, VERTICAL, 10)>>}

\* A grid just large enough for the last letters of the words ws, with the
\* clue cs[k] for the k-th word.
RECURSIVE SampleGrid(_, _)
SampleGrid(ws, cs) ==
  IF ws = <<>> THEN NewGrid(2, 1)
  ELSE LET last == [ws[Len(ws)] EXCEPT !.clue = cs[Len(ws)]]
           rest == SampleGrid(SubSeq(ws, 1, Len(ws) - 1), cs)
           sized == [rest EXCEPT !.width = Max(@, getEndCol(last) + 1),
                                 !.height = Max(@, getEndRow(last) + 1)]
       IN addPlacedWord(sized, last)

Puzzles ==
  {createPuzzle(title, SampleGrid(ws, cs)) :
     title \in SampleTitles, ws \in SampleWords, cs \in [1..2 -> SampleClues]}

SerialInit ==
  /\ pc = "puzzle"
  /\ entries = <<>>
  /\ Fresh
  /\ heap = <<>> /\ original = 0 /\ copy = 0 /\ call = NoCall /\ calls = 0
  /\ puzzle \in Puzzles
  /\ hash = <<>>
  /\ deflated = <<>>
  /\ parsed = NoPuzzle

\* What a step of the serializer leaves alone.
OnPuzzle ==
  UNCHANGED <<entries, mainVars, passVars, expired, restartVars, localGrid, localCount,
              dfsVars, beamVars, heap, original, copy, call, calls, puzzle>>

\* serialize(puzzle): deflated records the bytes deflate returned and the
\* text they stand for.
Serialize ==
  /\ pc = "puzzle"
  /\ \E bytes \in ByteStrings :
       /\ deflated' = [bytes |-> bytes, text |-> toCompactFormat(puzzle)]
       /\ hash' = <<"Z">> \o base64UrlEncode(bytes)
  /\ pc' = "serialized"
  /\ UNCHANGED parsed
  /\ OnPuzzle

\* deserialize(hash): inflate gives back the text of the bytes deflate
\* returned, and fails on other bytes.
Deserialize ==
  /\ pc = "serialized"
  /\ parsed' =
       IF hash # <<>> /\ hash[1] = "Z"
         THEN LET bytes == base64UrlDecode(Tail(hash))
              IN IF bytes = InvalidCharacterError THEN Failed("InvalidCharacterError")
                 ELSE IF bytes # deflated.bytes THEN Failed("inflate")
                 ELSE fromCompactFormat(deflated.text)
         ELSE Failed("SyntaxError")
  /\ pc' = "deserialized"
  /\ UNCHANGED <<hash, deflated>>
  /\ OnPuzzle

SerialNext == Serialize \/ Deserialize

SerialSpec == SerialInit /\ [][SerialNext]_vars

Occupied(g, p) ==
  /\ p[1] \in 0..(g.height - 1) /\ p[2] \in 0..(g.width - 1)
  /\ p \in DOMAIN g.cells

\* The four conditions for putting word at option on g: the footprint lies
\* inside the grid; an occupied cell of it holds the word's letter and an
\* empty one has both neighbours across the word empty; one of its cells is
\* occupied; the cell before the first and the cell after the last letter
\* are empty.  A coordinate outside the grid counts as empty.
Fits(g, word, option) ==
  LET w == PlacedWord(word, "", option.row, option.col, option.direction, 0)
      across == IF option.direction = HORIZONTAL THEN <<1, 0>> ELSE <<0, 1>>
      along == IF option.direction = HORIZONTAL THEN <<0, 1>> ELSE <<1, 0>>
      Plus(p, n, d) == <<p[1] + n * d[1], p[2] + n * d[2]>>
      anchor == <<option.row, option.col>>
  IN /\ \A p \in Footprint(w) : p[1] \in 0..(g.height - 1) /\ p[2] \in 0..(g.width - 1)
     /\ \A p \in Footprint(w) :
          IF Occupied(g, p) THEN g.cells[p] = LetterAt(w, p)
          ELSE ~Occupied(g, Plus(p, -1, across)) /\ ~Occupied(g, Plus(p, 1, across))
     /\ \E p \in Footprint(w) : Occupied(g, p)
     /\ ~Occupied(g, Plus(anchor, -1, along))
     /\ ~Occupied(g, Plus(anchor, Len(word), along))

\* The options canPlaceWord is asked about: those of findAllPlacementOptions
\* and the same anchors in the other direction.
Candidates(g, word) ==
  LET found == Range(findAllPlacementOptions(g, word))
  IN found \cup {[o EXCEPT !.direction = IF @ = HORIZONTAL THEN VERTICAL ELSE HORIZONTAL] :
                   o \in found}

\* C19: canPlaceWord is true exactly when the four conditions hold.
C19_CanPlaceIffFits ==
  \A g \in LiveGrids : \A k \in DOMAIN normalized :
    \A option \in Candidates(g, normalized[k].answer) :
      canPlaceWord(g, normalized[k].answer, option) <=> Fits(g, normalized[k].answer, option)

\* tryGreedy is about to place a word that canPlaceWord accepts at one
\* crossing and rejects at another, where only the cell after its last
\* letter is in the way.
C19_Witness ==
  /\ pc \in {"greedyFirstPass", "greedySecondPass"}
  /\ \E k \in DOMAIN normalized :
       \E yes, no \in Range(findAllPlacementOptions(grid, normalized[k].answer)) :
         /\ canPlaceWord(grid, normalized[k].answer, yes)
         /\ ~canPlaceWord(grid, normalized[k].answer, no)
         /\ canPlaceWord_NoEndCheck(grid, normalized[k].answer, no)

(***************************************************************************)
(* Words on top of each other                                              *)
(***************************************************************************)
\* C20: in every grid a strategy reaches, two distinct placed words that
\* cover a common cell have different directions: no word lies along and on
\* top of another one, also when two answers are equal or one is the
\* beginning of the other.
C20_OverlapsAreCrossings ==
  \A g \in LiveGrids : \A j, k \in DOMAIN g.placedWords :
    j # k /\ Crossing(g.placedWords[j], g.placedWords[k])
      => g.placedWords[j].direction # g.placedWords[k].direction

(***************************************************************************)
(* Words beside each other                                                 *)
(***************************************************************************)
\* Two coordinates are neighbours in a row or in a column.
Adjacent(p, q) == Abs(p[1] - q[1]) + Abs(p[2] - q[2]) = 1

\* Any two neighbouring cells of g that hold a letter lie on one placed word.
NoStrayNeighbours(g) ==
  \A p, q \in DOMAIN g.cells :
    Adjacent(p, q) =>
      \E k \in DOMAIN g.placedWords :
        p \in Footprint(g.placedWords[k]) /\ q \in Footprint(g.placedWords[k])

\* C21: in every grid a strategy reaches, two occupied cells that are
\* neighbours in a row or in a column both belong to one placed word: no two
\* words run side by side and no word touches the end of another.
C21_NeighboursShareWord == \A g \in LiveGrids : NoStrayNeighbours(g)

\* A strategy works on a grid of at least three words and has an option
\* that canPlaceWord rejects only because the word would run beside another
\* one.
C21_Witness ==
  /\ pc \in {"greedyFirstPass", "greedySecondPass", "restartsFirstPass", "restartsSecondPass"}
  /\ Len(grid.placedWords) >= 3
  /\ \E k \in DOMAIN normalized :
       \E no \in Range(findAllPlacementOptions(grid, normalized[k].answer)) :
         /\ ~canPlaceWord(grid, normalized[k].answer, no)
         /\ canPlaceWord_NoSideCheck(grid, normalized[k].answer, no)
         /\ ~NoStrayNeighbours(addPlacedWord(grid,
               PlacedWord(normalized[k].answer, normalized[k].clue, no.row, no.col,
                          no.direction, 0)))

(***************************************************************************)
(* findAllPlacementOptions                                                 *)
(***************************************************************************)
\* The triples (placed word k, index i in word, index j in the placed word),
\* indices 0-based, at which the two words have the same letter.
Matches(g, word) ==
  UNION {{t \in {k} \X (0..(Len(word) - 1)) \X (0..(Len(g.placedWords[k].word) - 1)) :
            word[t[2] + 1] = g.placedWords[k].word[t[3] + 1]} :
         k \in DOMAIN g.placedWords}

\* Option o is the one of triple t: it runs across the placed word and its
\* cell i is the placed word's cell j.
OptionOf(g, o, t) ==
  /\ o.direction # g.placedWords[t[1]].direction
  /\ <<OptRow(o, t[2]), OptCol(o, t[2])>> = CellAt(g.placedWords[t[1]], t[3])

\* C22: findAllPlacementOptions returns one option for every triple (placed
\* word, index in the word, index in the placed word) with equal letters and
\* nothing else; the option runs across the placed word and puts the two
\* matching letters on the same cell; options canPlaceWord rejects are
\* returned as well.
C22_OneOptionPerMatch ==
  \A g \in LiveGrids : \A e \in DOMAIN normalized :
    LET word == normalized[e].answer
        options == findAllPlacementOptions(g, word)
        matches == Matches(g, word)
    IN /\ Len(options) = Cardinality(matches)
       /\ \A o \in Range(options) :
            Cardinality({n \in DOMAIN options : options[n] = o})
              = Cardinality({t \in matches : OptionOf(g, o, t)})

\* A strategy works on a grid for which a word has two options from one
\* letter of its own, an option outside the grid and an option canPlaceWord
\* accepts.
C22_Witness ==
  /\ grid # NoGrid
  /\ \E e \in DOMAIN normalized :
       LET word == normalized[e].answer
           options == findAllPlacementOptions(grid, word)
       IN /\ \E s, t \in Matches(grid, word) : s[2] = t[2] /\ s[3] # t[3]
          /\ \E n \in DOMAIN options : ~isInBounds(grid, options[n].row, options[n].col)
          /\ \E n \in DOMAIN options : canPlaceWord(grid, word, options[n])

(***************************************************************************)
(* The order of the strategies                                             *)
(***************************************************************************)
\* The best placed count after the first k strategy calls.
BestUpTo(k) ==
  MaxSeq(<<0>> \o [j \in 1..k |-> IF attempts[j].threw THEN 0 ELSE attempts[j].placedCount])

\* The position in StrategyOrder of the strategy that is running (0 when
\* none is).
Running ==
  IF pc \in {"greedy", "greedyFirstPass", "greedySecondPass", "greedyEnd"} THEN greedyIdx
  ELSE IF pc \in {"restarts", "restartsLoop", "restartsFirstPass", "restartsSecondPass",
                  "restartsEnd"} THEN 4
  ELSE IF pc \in {"backtracking", "backtrackingLoop", "backtrackingResult",
                  "backtrackingOuter", "backtrackingEnd", "dfs"} THEN 5
  ELSE IF pc \in {"beam", "beamLoop", "beamEnd"} THEN 6
  ELSE 0

\* C23: the strategies are called in the order greedy longest-first, greedy
\* most-connections, greedy balanced, random restarts, backtracking, beam
\* search, none twice and none skipped; every call after the first is made
\* only while the best count is below the number of entries, and
\* generateLayout goes on to its end only when the best count has reached
\* that number or beam search has run.
C23_FixedStrategyOrder ==
  /\ \A k \in DOMAIN attempts :
       /\ k <= Len(StrategyOrder)
       /\ attempts[k].name = StrategyOrder[k]
       /\ k > 1 => BestUpTo(k - 1) < target
  /\ bestCount = BestUpTo(Len(attempts))
  /\ Running # 0 =>
       /\ Running = Len(attempts) + 1
       /\ Running > 1 => bestCount < target
  /\ pc \in {"final", "done"} /\ attempts # <<>> =>
       bestCount = target \/ Len(attempts) = Len(StrategyOrder)

\* generateLayout has ended after the second greedy ordering, the first one
\* to place every word.
C23_Witness ==
  /\ pc = "done"
  /\ Len(attempts) = 2
  /\ attempts[1].placedCount < target
  /\ attempts[2].placedCount = target

(***************************************************************************)
(* placeWordGreedy                                                         *)
(***************************************************************************)
\* The call of placeWordGreedy the next step of a pass makes (none: <<>>).
PendingPlace ==
  IF pc \in {"greedyFirstPass", "restartsFirstPass"} /\ i < Len(order)
    THEN <<[entry |-> order[i + 1], currentIndex |-> i]>>
  ELSE IF pc \in {"greedySecondPass", "restartsSecondPass"} /\ i < Len(unplaced)
    THEN <<[entry |-> unplaced[i + 1], currentIndex |-> Len(order)]>>
  ELSE <<>>

\* What placeWordGreedy has to do: the options are ranked by descending
\* score, equal scores in the order of discovery; of the first 20 ranks the
\* best one canPlaceWord accepts is placed.
GreedyOutcome(g, entry, allEntries, currentIndex) ==
  LET word == entry.answer
      found == findAllPlacementOptions(g, word)
      scores == AsSeq([n \in DOMAIN found |->
                   calculatePlacementScore(g, word, found[n], allEntries, currentIndex)])
      ranks == AsSeq([n \in DOMAIN found |->
                  1 + Cardinality({m \in DOMAIN found : scores[m] > scores[n]})
                    + Cardinality({m \in 1..(n - 1) : scores[m] = scores[n]})])
      accepted == {n \in DOMAIN found : ranks[n] <= 20 /\ canPlaceWord(g, word, found[n])}
  IN IF accepted = {} THEN [ok |-> FALSE, grid |-> g]
     ELSE LET n == CHOOSE a \in accepted : \A b \in accepted : ranks[a] <= ranks[b]
          IN [ok |-> TRUE,
              grid |-> addPlacedWord(g, [word |-> word, clue |-> entry.clue,
                                         row |-> found[n].row, col |-> found[n].col,
                                         direction |-> found[n].direction, number |-> 0])]

PlacedOn(g, entry) ==
  \E k \in DOMAIN g.placedWords :
    g.placedWords[k].clue = entry.clue /\ g.placedWords[k].word = entry.answer

\* C25: in tryGreedy and in every iteration of tryRandomRestarts the second
\* pass starts after every entry has been attempted once and goes once
\* through the entries the first pass could not place, in their order, and
\* through no entry the first pass placed, also when entries have the same
\* answer.
C25_SecondPassRetriesFailures ==
  pc \in {"greedySecondPass", "restartsSecondPass"} =>
    /\ \A m, n \in DOMAIN unplaced : unplaced[m].id = unplaced[n].id => m = n
    /\ \A k \in DOMAIN order :
         (\E n \in DOMAIN unplaced : unplaced[n].id = order[k].id)
           <=> \/ ~PlacedOn(grid, order[k])
               \/ \E n \in 1..i : unplaced[n].id = order[k].id
    /\ unplaced = SelectSeq(order, LAMBDA e : \E n \in DOMAIN unplaced : unplaced[n].id = e.id)

(***************************************************************************)
(* The deadline of tryBacktracking                                         *)
(***************************************************************************)
\* tryBacktracking or backtrackDFS is running.
InBacktracking ==
  pc \in {"backtracking", "backtrackingLoop", "backtrackingResult", "backtrackingOuter",
          "backtrackingEnd", "dfs"}

\* C26: when the deadline passes during backtracking no error leaves
\* generateLayout, and the search keeps the best grid it has built, complete
\* or not: a call of backtrackDFS that returns after the deadline, while it
\* holds a grid with more words than any grid known so far, returns a grid
\* with at least as many words (nothing is searched after the deadline, so
\* a grid that is not returned then is lost to tryBacktracking).
C26_DeadlineKeepsBest ==
  /\ [](InBacktracking => error = "")
  /\ [][/\ pc = "dfs" /\ Len(stack') < Len(stack) /\ expired'
        /\ Len(grid.placedWords) > Top.localBest
        => /\ ret' # NoGrid
           /\ Len(ret'.placedWords) >= Len(grid.placedWords)]_vars

(***************************************************************************)
(* backtrackDFS: the choice of the word and the branches                   *)
(***************************************************************************)
\* The options of the entry that canPlaceWord accepts on g, as positions in
\* the list findAllPlacementOptions returns.
ValidAt(g, entry) ==
  {n \in DOMAIN findAllPlacementOptions(g, entry.answer) :
     canPlaceWord(g, entry.answer, findAllPlacementOptions(g, entry.answer)[n])}

\* A step of backtrackDFS that chooses the word to branch on: the word is one
\* of the remaining ones, not on the grid, with the fewest valid options
\* among those that have any; its options are the valid ones, highest score
\* first; the words left are the remaining ones without it.
ChoosesFewest ==
  pc = "dfs" /\ Top.at = "enter" /\ Len(stack') = Len(stack) =>
    LET frame == stack'[Len(stack)]
        found == findAllPlacementOptions(grid, frame.chosen.answer)
    IN /\ frame.at = "loop"
       /\ \E k \in DOMAIN Top.remaining : Top.remaining[k] = frame.chosen
       /\ ~PlacedOn(grid, frame.chosen)
       /\ ValidAt(grid, frame.chosen) # {}
       /\ \A k \in DOMAIN Top.remaining :
            LET count == Cardinality(ValidAt(grid, Top.remaining[k]))
            IN count > 0 => Cardinality(ValidAt(grid, frame.chosen)) <= count
       /\ Len(frame.options) = Cardinality(ValidAt(grid, frame.chosen))
       /\ \A n \in DOMAIN frame.options :
            /\ canPlaceWord(grid, frame.chosen.answer, frame.options[n])
            /\ \E m \in ValidAt(grid, frame.chosen) :
                 /\ found[m].row = frame.options[n].row
                 /\ found[m].col = frame.options[n].col
                 /\ found[m].direction = frame.options[n].direction
            /\ frame.options[n].score =
                 calculatePlacementScore(grid, frame.chosen.answer, frame.options[n],
                                         frame.newRemaining, 0)
            /\ n > 1 => frame.options[n - 1].score >= frame.options[n].score
       /\ frame.newRemaining = SelectSeq(Top.remaining, LAMBDA e : e.id # frame.chosen.id)
       /\ grid' = grid

\* A step that tries an option: it is the next one of the first 8, the word
\* is put there and the search is called for the words left.
TriesInOrder ==
  pc = "dfs" /\ Top.at = "loop" /\ Len(stack') > Len(stack) =>
    LET option == Top.options[Top.k + 1]
    IN /\ Top.k < 8
       /\ grid' = addPlacedWord(grid, [word |-> Top.chosen.answer, clue |-> Top.chosen.clue,
                                       row |-> option.row, col |-> option.col,
                                       direction |-> option.direction, number |-> 0])
       /\ stack'[Len(stack)].at = "inTry"
       /\ stack'[Len(stack')].at = "enter"
       /\ stack'[Len(stack')].remaining = Top.newRemaining

\* The step after the search for a tried option has returned: the word is
\* taken off again and the next option is the one after it.
UndoesTry ==
  pc = "dfs" /\ Top.at = "inTry" =>
    /\ grid # NoGrid /\ grid.placedWords # <<>>
    /\ grid'.placedWords = SubSeq(grid.placedWords, 1, Len(grid.placedWords) - 1)
    /\ grid' = removeLastPlacedWord(grid)
    /\ Len(stack') = Len(stack) =>
         stack'[Len(stack)].at = "loop" /\ stack'[Len(stack)].k = Top.k + 1

\* The step that leaves the chosen word out: the search is called for the
\* words left on the grid as it was before the options were tried.
SkipsChosen ==
  pc = "dfs" /\ Top.at = "skip" /\ Len(stack') > Len(stack) =>
    /\ grid' = grid
    /\ stack'[Len(stack)].at = "inSkip"
    /\ stack'[Len(stack')].at = "enter"
    /\ stack'[Len(stack')].remaining = Top.newRemaining
    /\ \A k \in DOMAIN Top.newRemaining : Top.newRemaining[k].id # Top.chosen.id

\* A call that has chosen a word returns.
ReturnsAfterChoice == pc = "dfs" /\ Len(stack') < Len(stack) /\ Top.at # "enter"

\* C27 as stated: every step of backtrackDFS with a placeable word branches
\* on a remaining word with the fewest valid options, tries at most its 8
\* best options in descending score order, each followed by the recursive
\* search and the undo, and afterwards explores the branch that leaves the
\* word out: a call that has chosen a word returns only from that branch.
C27_BranchesThenSkips ==
  [][/\ ChoosesFewest
     /\ TriesInOrder
     /\ UndoesTry
     /\ SkipsChosen
     /\ ReturnsAfterChoice => Top.at = "inSkip"]_vars

\* C27, amended: as above, but the branch that leaves the word out is not
\* explored when a tried option has led to a grid with every remaining word
\* placed (the call returns that grid at once) or when the deadline has
\* passed.
C27_BranchesThenSkipsUnlessDone ==
  [][/\ ChoosesFewest
     /\ TriesInOrder
     /\ UndoesTry
     /\ SkipsChosen
     /\ ReturnsAfterChoice =>
          \/ Top.at = "inSkip"
          \/ /\ Top.at = "inTry"
             /\ ret' # NoGrid
             /\ Len(ret'.placedWords) = Len(grid'.placedWords) + Len(Top.remaining)
          \/ Top.at = "skip" /\ expired']_vars

\* backtrackDFS has tried the 8 best of more than 8 valid options of the
\* chosen word, has undone each of them and is about to leave the word out.
C27_Witness ==
  /\ pc = "dfs" /\ stack # <<>>
  /\ Top.at = "skip"
  /\ Top.k = 8
  /\ Len(Top.options) > 8
  /\ ~expired
  /\ ~PlacedOn(grid, Top.chosen)

(***************************************************************************)
(* backtrackDFS: pruning                                                   *)
(***************************************************************************)
\* The call on top of the stack has not run yet and cannot beat the best
\* count even if every remaining word is placed.
Hopeless == Len(grid.placedWords) + Len(Top.remaining) <= Top.bestSoFar

\* None of the remaining words of the call on top of the stack has a valid
\* option, and the grid is not better than the best count.
DeadEnd ==
  /\ \A k \in DOMAIN Top.remaining : ValidAt(grid, Top.remaining[k]) = {}
  /\ Len(grid.placedWords) <= Top.bestSoFar

\* The call on top of the stack returns null at once.
ReturnsNullAtOnce ==
  pc = "dfs" /\ Top.at = "enter" /\ Len(stack') < Len(stack) /\ ret' = NoGrid

\* The best count a call is given is the one its caller has reached, and a
\* grid a call returns has more placed words than that.
ReturnsOnlyBetter ==
  /\ pc = "dfs" /\ Top.at = "enter" =>
       Top.bestSoFar = IF Len(stack) = 1 THEN localCount
                       ELSE stack[Len(stack) - 1].localBest
  /\ pc = "dfs" /\ Len(stack') < Len(stack) /\ ret' # NoGrid =>
       Len(ret'.placedWords) > Top.bestSoFar

\* C28 as stated: a call of backtrackDFS returns no grid without placing
\* anything exactly when the placed words and the remaining words together
\* are not more than the best count so far, and a grid it returns has more
\* placed words than the best count it was called with.
C28_PrunesExactlyWhenHopeless ==
  [][/\ pc = "dfs" /\ Top.at = "enter" => (ReturnsNullAtOnce <=> Hopeless)
     /\ ReturnsOnlyBetter]_vars

\* C28, amended: a call returns no grid without placing anything whenever
\* the placed and the remaining words together are not more than the best
\* count so far, and otherwise only when the deadline has passed or when no
\* remaining word has a valid option and the grid is not better than the
\* best count; a grid it returns has more placed words than the best count
\* it was called with.
C28_PrunesWhenHopeless ==
  [][/\ pc = "dfs" /\ Top.at = "enter" =>
          /\ Hopeless => ReturnsNullAtOnce
          /\ ReturnsNullAtOnce <=> (expired' \/ Hopeless \/ DeadEnd)
     /\ ReturnsOnlyBetter]_vars

\* backtrackDFS has been called, with the deadline not passed, for a word
\* that has a valid option on a grid that can no longer beat the best count
\* an earlier branch has reached.
C28_Witness ==
  /\ pc = "dfs" /\ stack # <<>>
  /\ Top.at = "enter"
  /\ ~expired
  /\ Hopeless
  /\ Top.bestSoFar > localCount
  /\ \E k \in DOMAIN Top.remaining : ValidAt(grid, Top.remaining[k]) # {}

(***************************************************************************)
(* backtrackDFS: the grid after a call                                     *)
(***************************************************************************)
\* The grid tryBacktracking hands to backtrackDFS: a new grid with the first
\* word of the running iteration.
FirstWordGrid ==
  LET gridSize == calculateGridSize(normalized)
  IN placeFirstWord(NewGrid(gridSize, gridSize), order[firstIdx + 1], Directions[dirIdx],
                    gridSize)

\* The words the calls on the stack have placed and not yet taken off: one
\* for every call that is inside the search for a tried option.
TriedWords ==
  LET inTry == SelectSeq(stack, LAMBDA f : f.at = "inTry")
  IN [n \in DOMAIN inTry |->
        [word |-> inTry[n].chosen.answer, clue |-> inTry[n].chosen.clue,
         row |-> inTry[n].options[inTry[n].k + 1].row,
         col |-> inTry[n].options[inTry[n].k + 1].col,
         direction |-> inTry[n].options[inTry[n].k + 1].direction, number |-> 0]]

\* The grid g with the words ws written on it one after the other.
RECURSIVE WithWords(_, _)
WithWords(g, ws) ==
  IF ws = <<>> THEN g
  ELSE addPlacedWord(WithWords(g, SubSeq(ws, 1, Len(ws) - 1)), ws[Len(ws)])

\* C29: a call of backtrackDFS returns with the grid as it was given:
\* while the search runs the grid is the first word's grid with the words
\* of the tried options that are still being searched, so that after a call
\* has returned, cells and word list are what they were when it was made
\* (with only the first word after the outermost call); nothing a caller
\* holds changes during a call; and the undo after a returned search leaves
\* the returned grid, a copy, as it was returned.
C29_CallRestoresGrid ==
  /\ [](pc \in {"dfs", "backtrackingResult"} =>
          /\ grid.placedWords = WithWords(FirstWordGrid, TriedWords).placedWords
          /\ grid.cells = WithWords(FirstWordGrid, TriedWords).cells
          /\ grid.width = FirstWordGrid.width /\ grid.height = FirstWordGrid.height)
  /\ [][pc = "dfs" =>
          /\ \A k \in 1..(Min(Len(stack), Len(stack')) - 1) : stack'[k] = stack[k]
          /\ Top.at = "inTry" =>
               LET kept == IF Len(stack') = Len(stack) THEN stack'[Len(stack)].bestResult
                           ELSE ret'
               IN /\ kept \in {ret, Top.bestResult}
                  /\ ret # NoGrid /\ Len(ret.placedWords) > Top.localBest => kept = ret]_vars

\* backtrackDFS has undone a tried option whose search returned a grid: the
\* returned grid still has the words the grid of the search has lost.
C29_Witness ==
  /\ pc = "dfs" /\ stack # <<>>
  /\ Len(stack) >= 2
  /\ Top.at = "loop" /\ Top.k >= 1
  /\ Top.bestResult # NoGrid
  /\ Len(Top.bestResult.placedWords) > Len(grid.placedWords)
  /\ \A k \in DOMAIN grid.placedWords : Top.bestResult.placedWords[k] = grid.placedWords[k]

(***************************************************************************)
(* tryBeamSearch with many entries                                         *)
(***************************************************************************)
\* The largest number of entries of a call.
MaxBeamEntries == 101

\* n entries with clues Q1 .. Qn whose answers have no letter.
BlankEntries(n) == [k \in 1..n |-> [clue |-> "Q" \o ToString(k), answer |-> <<"1">>]]

\* What the strategies before beam search end with when no answer has a
\* letter: each greedy order places its first word, random restarts and
\* backtracking throw.
BlankAttempts ==
  [k \in 1..3 |-> [name |-> GreedyNames[k], threw |-> FALSE, message |-> "",
                   placedCount |-> 1]]
    \o << [name |-> "random-restarts", threw |-> TRUE, message |-> ERR_RESTARTS,
           placedCount |-> 0],
          [name |-> "backtracking", threw |-> TRUE, message |-> ERR_BACKTRACKING,
           placedCount |-> 0] >>

\* generateLayout(es) is about to call tryBeamSearch, for entries es without
\* any letter.
BeamCalled(es) ==
  LET gridSize == calculateGridSize(Normalize(es))
  IN /\ pc = "beam"
     /\ entries = es
     /\ normalized = Normalize(es)
     /\ bestGrid = assignNumbers(optimizeGrid(
                     placeFirstWord(NewGrid(gridSize, gridSize), Normalize(es)[1],
                                    HORIZONTAL, gridSize)))
     /\ bestCount = 1
     /\ bestStrategy = GreedyNames[1]
     /\ greedyIdx = 3
     /\ error = ""
     /\ returned = NoGrid
     /\ attempts = BlankAttempts
     /\ grid = NoGrid /\ order = <<>> /\ i = 0 /\ unplaced = <<>>
     /\ expired = FALSE /\ iterations = 0
     /\ localGrid = NoGrid /\ localCount = 0
     /\ firstIdx = 0 /\ dirIdx = 0 /\ stack = <<>> /\ ret = NoGrid
     /\ beam = <<>> /\ bestState = NoState /\ step = 0

BeamInit ==
  /\ \E n \in 2..MaxBeamEntries : BeamCalled(BlankEntries(n))
  /\ NoObjects

BeamNext == BeamBegin \/ BeamStep \/ BeamEnd \/ Finish

BeamSpec == BeamInit /\ [][BeamNext]_vars

\* C30: the beam of tryBeamSearch never holds more than beamWidth states,
\* neither when it has been built from every first word and direction nor
\* after a step, however many entries there are.
C30_BeamWithinWidth == Len(beam) <= BeamWidth

(***************************************************************************)
(* Every entry at most once                                                *)
(***************************************************************************)
\* The entries of the normalized list that the k-th placed word of g may
\* stand for: those with its clue and its answer.
EntriesFor(g, k) ==
  {n \in DOMAIN normalized : /\ normalized[n].clue = g.placedWords[k].clue
                             /\ normalized[n].answer = g.placedWords[k].word}

\* How often the answer a stands among the placed words of g, and among the
\* normalized entries.
TimesPlaced(g, a) == Cardinality({k \in DOMAIN g.placedWords : g.placedWords[k].word = a})

TimesGiven(a) == Cardinality({n \in DOMAIN normalized : normalized[n].answer = a})

\* C31: in every grid of every strategy each entry is placed at most once:
\* no more placed words than entries, every placed word stands for an
\* entry, two placed words stand for different entries, and an answer is
\* placed at most as often as it was given.
C31_EachEntryAtMostOnce ==
  \A g \in LiveGrids :
    /\ Len(g.placedWords) <= Len(normalized)
    /\ \A k \in DOMAIN g.placedWords : EntriesFor(g, k) # {}
    /\ \A j, k \in DOMAIN g.placedWords :
         j # k => g.placedWords[j].clue # g.placedWords[k].clue
    /\ \A k \in DOMAIN g.placedWords :
         TimesPlaced(g, g.placedWords[k].word) <= TimesGiven(g.placedWords[k].word)

\* generateLayout has returned a grid on which an answer that was given
\* twice is placed twice.
C31_Witness ==
  /\ HasReturned
  /\ \E k \in DOMAIN returned.placedWords :
       /\ TimesPlaced(returned, returned.placedWords[k].word) = 2
       /\ TimesGiven(returned.placedWords[k].word) = 2

(***************************************************************************)
(* Entries without a letter                                                *)
(***************************************************************************)
\* The entries whose answer normalizes to the empty string.
Blank == {n \in DOMAIN normalized : normalized[n].answer = <<>>}

\* C32: an entry whose answer normalizes to the empty string raises no
\* error (generateLayout fails only for want of three placed words) and is
\* on no grid that generateLayout returns: a returned grid has no placed
\* word of length 0.
C32_BlankNeverReturned ==
  /\ Blank # {} /\ error # "" => error = ERR_SHORTFALL /\ bestCount < MinPlaced
  /\ HasReturned => \A k \in DOMAIN returned.placedWords : Len(returned.placedWords[k].word) > 0

\* generateLayout has returned a grid for entries of which one has no
\* letter, after backtracking, which starts a grid with every entry, has
\* run.
C32_Witness ==
  /\ HasReturned
  /\ Blank # {}
  /\ \E k \in DOMAIN attempts : attempts[k].name = "backtracking"

(***************************************************************************)
(* What the strategy attempts share                                        *)
(***************************************************************************)
\* generateLayout is about to call a strategy.
AtStrategyCall == pc \in {"greedy", "restarts", "backtracking", "beam"}

\* No local of an earlier strategy call is left.
NoLocals ==
  /\ grid = NoGrid /\ order = <<>> /\ i = 0 /\ unplaced = <<>>
  /\ expired = FALSE /\ iterations = 0
  /\ localGrid = NoGrid /\ localCount = 0
  /\ firstIdx = 0 /\ dirIdx = 0 /\ stack = <<>> /\ ret = NoGrid
  /\ beam = <<>> /\ bestState = NoState /\ step = 0

UncroppedGrids == (LiveGrids \ {bestGrid, returned}) \ {NoGrid}

\* L: the length of the longest normalized answer; T: the number of letters
\* of all of them.
Longest == CHOOSE l \in {Len(normalized[n].answer) : n \in DOMAIN normalized} :
             \A n \in DOMAIN normalized : Len(normalized[n].answer) <= l

Letters == SumSeq([n \in DOMAIN normalized |-> Len(normalized[n].answer)])

\* s is min(50, max(L + 4, ceil(sqrt(4 * T)))).
IsSide(s) ==
  \E root \in 0..(4 * Letters) :
    /\ root * root >= 4 * Letters
    /\ \A r \in 0..(root - 1) : r * r < 4 * Letters
    /\ s = IF Longest + 4 >= root
             THEN (IF Longest + 4 <= 50 THEN Longest + 4 ELSE 50)
             ELSE (IF root <= 50 THEN root ELSE 50)

\* C34: every grid a strategy works on is a square of side
\* min(50, max(L + 4, ceil(sqrt(4 * T)))), which is at most 50, from its
\* allocation to the crop at the end of the strategy.
C34_SquareOfComputedSide ==
  \A g \in UncroppedGrids :
    /\ g.width = g.height
    /\ IsSide(g.width)
    /\ g.width <= 50

\* A strategy has placed a second word on a grid whose side comes from the
\* number of letters (it is wider than the longest answer and four).
C34_Witness ==
  /\ grid # NoGrid
  /\ Len(grid.placedWords) >= 2
  /\ grid.width > Longest + 4
  /\ grid.width < 50

(***************************************************************************)
(* backtrackDFS comes to an end                                            *)
(***************************************************************************)
\* A call of backtrackDFS is at its beginning.
AtEnter == pc = "dfs" /\ Top.at = "enter"

\* generateLayout on a machine that does not stop inside backtrackDFS: a
\* running call takes its next step.  The last conjunct is WF_vars(DFSEnter)
\* written out: DFSEnter is enabled exactly when AtEnter holds (the read of
\* the clock can always give a time after the deadline, and the call then
\* returns).
LiveSpec ==
  /\ Spec
  /\ WF_vars(DFSTry \/ DFSAfterTry \/ DFSSkip \/ DFSAfterSkip)
  /\ ([]<>(~AtEnter) \/ []<><<DFSEnter>>_vars)

\* backtrackDFS calls itself.
Recurses == pc = "dfs" /\ pc' = "dfs" /\ Len(stack') = Len(stack) + 1

\* C35: every call of backtrackDFS comes to an end, also when the deadline
\* never passes: a call that backtrackDFS makes, after a placement or in
\* the skip branch, has fewer remaining words than its caller, and the call
\* tryBacktracking made returns (and with it every call made inside it).
C35_DFSTerminates ==
  /\ [][Recurses => Len(stack'[Len(stack')].remaining) < Len(Top.remaining)]_vars
  /\ (pc = "dfs" ~> pc = "backtrackingResult")

\* backtrackDFS has called itself after a placement and, inside that call,
\* in the skip branch, and the deadline has not passed.
C35_Witness ==
  /\ pc = "dfs"
  /\ ~expired
  /\ Len(stack) >= 3
  /\ \E j, k \in DOMAIN stack : j < k /\ stack[j].at = "inTry" /\ stack[k].at = "inSkip"

====
